---- MODULE Spec2Model ----
(***************************************************************************)
(* Model of the string algorithms of better-string.hh                      *)
(* (namespace ext::algorithm::string) as instantiated by                   *)
(* better_string<char>: Char = char, E = default_encoding<char> = UTF8,    *)
(* so every encoding_traits<E>::iter is a UTF8Iterator.                    *)
(*                                                                         *)
(* A string is a sequence of code units (bytes 0..255).  Positions are     *)
(* 0-based unit offsets from data().  The storage is a std::basic_string:  *)
(* data()[size()] is the terminator 0.  Any other unit outside             *)
(* [0, size()] belongs to foreign memory; its value is the variable pad,   *)
(* chosen arbitrarily by Init.                                             *)
(*                                                                         *)
(* The outcome of a call is a record [kind, val]:                          *)
(*   "ok"     the call returned val                                        *)
(*   "throw"  the call threw std::invalid_argument                         *)
(*   "hang"   the call loops forever (a loop step that changes nothing)    *)
(*   "ub"     the call ran into undefined behaviour                        *)
(***************************************************************************)
EXTENDS Integers, Sequences, FiniteSets, TLC

VARIABLES op, self, arg, rep, start, end, num, pad, out,
          mode, From, To, table, skip,
          frame

(* The error policy, the encodings and the translation table of a call,   *)
(* and the third argument of maketrans.                                    *)
callVars == <<mode, From, To, table, skip>>

(* The frame of format1: its locals iter, from and result, the position    *)
(* counter it shares with its caller, and the calls it has made to the     *)
(* formatters.                                                             *)
formatVars == <<frame>>

vars == <<op, self, arg, rep, start, end, num, pad, out, callVars, formatVars>>

----------------------------------------------------------------------------
(* Bounds of the checked instances.                                        *)

MaxLen == 3
MaxSub == 2
MaxSplitLen == 4
MaxWidth == 5

(* size_t(-1): the largest size_t, written -1 here.  It is only compared   *)
(* for equality, passed to MinSize and decremented by DecCount.            *)
npos == -1

RECURSIVE Strs(_, _)
Strs(U, n) == IF n = 0 THEN {<<>>}
              ELSE LET S == Strs(U, n - 1)
                   IN  S \cup {Append(s, u) : s \in {t \in S : Len(t) = n - 1}, u \in U}

(* 'a', a two-unit lead byte (0xC3) and a continuation byte (0xA9).        *)
SearchUnits == {97, 195, 169}
(* 'a', ' ', a two-unit lead byte and a continuation byte.                 *)
SplitUnits == {97, 32, 195, 169}
Limits == {0, 1, 2, npos}

----------------------------------------------------------------------------
(* Outcomes.                                                               *)

Ok(v) == [kind |-> "ok", val |-> v]
Throw == [kind |-> "throw", val |-> <<>>]
Hang == [kind |-> "hang", val |-> <<>>]
UB == [kind |-> "ub", val |-> <<>>]

(* std::min on size_t.                                                     *)
MinSize(a, b) == IF a = npos THEN b
                 ELSE IF b = npos THEN a
                 ELSE IF a < b THEN a ELSE b

(* --count on a size_t: from size_t(-1) it does not reach 0 within any     *)
(* number of steps a bounded input allows.                                 *)
DecCount(c) == IF c = npos THEN npos ELSE c - 1

(* The unit at offset p of s.                                              *)
Unit(s, p) == IF p >= 0 /\ p < Len(s) THEN s[p + 1]
              ELSE IF p = Len(s) THEN 0
              ELSE pad

(* The units [a, b) of s.                                                  *)
Slice(s, a, b) == [i \in 1..(b - a) |-> s[a + i]]

(* Traits::compare(s.data() + p, sub.data(), sub.size()) == 0              *)
compare(s, p, sub) == \A i \in 1..Len(sub) : Unit(s, p + i - 1) = sub[i]

----------------------------------------------------------------------------
(* UTF8Iterator.                                                           *)

ascii(ch) == ch < 128
head(ch) == ch > 192
head2(ch) == ch < 224
head3(ch) == ch < 240
head4(ch) == ch < 248
tail(ch) == ch >= 128 /\ ch <= 191

(* operator++: the position after the step.                                *)
Inc(s, p) ==
    LET ch == Unit(s, p) IN
    IF ~head(ch) THEN p + 1
    ELSE IF head2(ch) THEN
        (IF tail(Unit(s, p + 1)) THEN p + 2 ELSE p)
    ELSE IF head3(ch) THEN
        (IF tail(Unit(s, p + 1)) /\ tail(Unit(s, p + 2)) THEN p + 3 ELSE p)
    ELSE IF head4(ch) THEN
        (IF tail(Unit(s, p + 1)) /\ tail(Unit(s, p + 2)) /\ tail(Unit(s, p + 3))
         THEN p + 4 ELSE p)
    ELSE p + 1

(* operator--: the position after the step.  The function has no return    *)
(* statement: see Outcomes.                                                *)
Dec(s, p) ==
    IF tail(Unit(s, p - 1)) THEN
        IF head2(Unit(s, p - 2)) /\ head(Unit(s, p - 2)) THEN p - 2
        ELSE IF tail(Unit(s, p - 2)) THEN
            IF head3(Unit(s, p - 3)) /\ ~head2(Unit(s, p - 3)) THEN p - 3
            ELSE IF tail(Unit(s, p - 3)) THEN
                (IF head4(Unit(s, p - 3)) /\ ~head3(Unit(s, p - 3)) THEN p - 4 ELSE p - 1)
            ELSE p - 1
        ELSE p - 1
    ELSE p - 1

(* operator-(left, right) with right at offset p and left at offset e:     *)
(* the number of ++ steps from p until the position is no longer below e.  *)
RECURSIVE IterDiff(_, _, _, _)
IterDiff(s, p, e, len) ==
    IF ~(p < e) THEN Ok(len)
    ELSE IF Inc(s, p) = p THEN Hang
    ELSE IterDiff(s, Inc(s, p), e, len + 1)

(* better_string::length<UTF8>()                                           *)
length(s) == IterDiff(s, 0, Len(s), 0)

(* The outcomes of a call whose deterministic part is r: a call that ran   *)
(* UTF8Iterator::operator-- flowed off the end of a value-returning        *)
(* function, which is undefined; a build either carries on as if *this     *)
(* had been returned or does anything else.                                *)
Outcomes(r) == {[kind |-> r.kind, val |-> r.val]}
                   \cup (IF r.dec THEN {UB} ELSE {})

WithDec(r, d) == [kind |-> r.kind, val |-> r.val, dec |-> d]

----------------------------------------------------------------------------------------------------------------------------------------
(* A call of better_string<char> with the default encoding takes no error  *)
(* policy and no table, and it does not run format1.                       *)

NoCall == mode = "Strict" /\ From = "UTF8" /\ To = "UTF8" /\ table = <<>> /\ skip = <<>>

NoFormat == frame = [iter |-> 0, from |-> 0, position |-> 0, result |-> <<>>, calls |-> <<>>]

----------------
(* Search.                                                                 *)

RECURSIVE findLoop(_, _, _, _, _)
findLoop(s, sub, iter, done, notfound) ==
    IF ~(iter < done) THEN notfound
    ELSE IF compare(s, iter, sub) THEN Ok(iter)
    ELSE IF Inc(s, iter) = iter THEN Hang
    ELSE findLoop(s, sub, Inc(s, iter), done, notfound)

find(s, sub, st, en) ==
    IF Len(s) < Len(sub) THEN Ok(0)
    ELSE findLoop(s, sub, st, MinSize(en, Len(s)) - Len(sub) + 1, Ok(npos))

index(s, sub, st, en) ==
    IF Len(s) < Len(sub) THEN Ok(0)
    ELSE findLoop(s, sub, st, MinSize(en, Len(s)) - Len(sub) + 1, Throw)

RECURSIVE rfindLoop(_, _, _, _, _, _)
rfindLoop(s, sub, iter, done, notfound, dec) ==
    IF ~(done < iter) THEN WithDec(notfound, dec)
    ELSE IF compare(s, iter - Len(sub), sub) THEN WithDec(Ok(iter - Len(sub)), dec)
    ELSE rfindLoop(s, sub, Dec(s, iter), done, notfound, TRUE)

rfind(s, sub, st, en) ==
    IF Len(s) < Len(sub) THEN WithDec(Ok(0), FALSE)
    ELSE rfindLoop(s, sub, MinSize(en, Len(s)), st + Len(sub) - 1, Ok(npos), FALSE)

rindex(s, sub, st, en) ==
    IF Len(s) < Len(sub) THEN WithDec(Ok(0), FALSE)
    ELSE rfindLoop(s, sub, MinSize(en, Len(s)), st + Len(sub) - 1, Throw, FALSE)

(* With an empty sub every position matches and the position never moves. *)
RECURSIVE countLoop(_, _, _, _, _)
countLoop(s, sub, iter, done, result) ==
    IF ~(iter < done) THEN Ok(result)
    ELSE IF compare(s, iter, sub) THEN
        (IF Len(sub) = 0 THEN Hang
         ELSE countLoop(s, sub, iter + Len(sub), done, result + 1))
    ELSE IF Inc(s, iter) = iter THEN Hang
    ELSE countLoop(s, sub, Inc(s, iter), done, result)

count(s, sub, st, en) ==
    IF Len(s) < Len(sub) THEN Ok(0)
    ELSE countLoop(s, sub, st, MinSize(en, Len(s)) - Len(sub) + 1, 0)

----------------------------------------------------------------------------
(* Replace.                                                                *)

(* With an empty old the position never moves: the loop ends only when    *)
(* the limit is used up.                                                   *)
RECURSIVE replaceLoop(_, _, _, _, _, _, _, _)
replaceLoop(s, old, str, cnt, prev, iter, done, result) ==
    IF ~(cnt # 0 /\ iter < done) THEN Ok(result \o Slice(s, prev, Len(s)))
    ELSE IF compare(s, iter, old) THEN
        (IF Len(old) = 0 /\ cnt = npos THEN Hang
         ELSE replaceLoop(s, old, str, DecCount(cnt), iter + Len(old), iter + Len(old),
                          done, result \o Slice(s, prev, iter) \o str))
    ELSE IF Inc(s, iter) = iter THEN Hang
    ELSE replaceLoop(s, old, str, cnt, prev, Inc(s, iter), done, result)

(* "return 0" converts the null pointer to the result string: undefined    *)
(* (libstdc++ throws std::logic_error).                                    *)
replace(s, old, str, cnt) ==
    IF Len(s) < Len(old) THEN UB
    ELSE replaceLoop(s, old, str, cnt, 0, 0, Len(s) - Len(old) + 1, <<>>)

----------------------------------------------------------------------------
(* Split and join.                                                         *)

(* A char holding unit u, as the signed value the comparisons see.         *)
SChar(u) == IF u >= 128 THEN u - 256 ELSE u

(* The whitespace test of the split loops: the char is ' ' or lies in     *)
(* 0x9..0xD.                                                               *)
IsSpace(u) == SChar(u) = 32 \/ (SChar(u) >= 9 /\ SChar(u) <= 13)

RECURSIVE join(_, _)
join(sep, items) ==
    IF Len(items) = 0 THEN <<>>
    ELSE IF Len(items) = 1 THEN items[1]
    ELSE items[1] \o sep \o join(sep, Tail(items))

(* The inner loop that steps ptr forward over whitespace: it stops at the  *)
(* terminator at the latest.                                               *)
RECURSIVE SkipSpace(_, _)
SkipSpace(s, p) == IF IsSpace(Unit(s, p)) THEN SkipSpace(s, p + 1) ELSE p

RECURSIVE splitWsLoop(_, _, _, _, _)
splitWsLoop(s, maxsplit, prev, iter, result) ==
    IF ~(maxsplit # 0 /\ iter < Len(s)) THEN Ok(Append(result, Slice(s, prev, Len(s))))
    ELSE IF IsSpace(Unit(s, iter)) THEN
        splitWsLoop(s, DecCount(maxsplit), SkipSpace(s, iter), SkipSpace(s, iter),
                    Append(result, Slice(s, prev, iter)))
    ELSE IF Inc(s, iter) = iter THEN Hang
    ELSE splitWsLoop(s, maxsplit, prev, Inc(s, iter), result)

(* split (whitespace)                                                      *)
splitWs(s, maxsplit) == splitWsLoop(s, maxsplit, 0, 0, <<>>)

RECURSIVE splitLoop(_, _, _, _, _, _, _)
splitLoop(s, sep, maxsplit, prev, iter, done, result) ==
    IF ~(maxsplit # 0 /\ iter < done) THEN Ok(Append(result, Slice(s, prev, Len(s))))
    ELSE IF compare(s, iter, sep) THEN
        splitLoop(s, sep, DecCount(maxsplit), iter + Len(sep), iter + Len(sep), done,
                  Append(result, Slice(s, prev, iter)))
    ELSE IF Inc(s, iter) = iter THEN Hang
    ELSE splitLoop(s, sep, maxsplit, prev, Inc(s, iter), done, result)

(* split (separator)                                                       *)
split(s, sep, maxsplit) ==
    IF Len(sep) = 0 THEN Throw
    ELSE splitLoop(s, sep, IF Len(s) < Len(sep) THEN 0 ELSE maxsplit,
                   0, 0, Len(s) - Len(sep) + 1, <<>>)

(* The swap loop that reverses the accumulator.                            *)
Reverse(v) == [i \in 1..Len(v) |-> v[Len(v) + 1 - i]]

(* The inner loop that steps ptr back over whitespace: where it stops,     *)
(* or -2 when it runs on through the memory before the string.             *)
RECURSIVE SkipSpaceBack(_, _)
SkipSpaceBack(s, p) ==
    IF ~IsSpace(Unit(s, p)) THEN p
    ELSE IF p < 0 THEN -2
    ELSE SkipSpaceBack(s, p - 1)

RECURSIVE rsplitWsLoop(_, _, _, _, _, _)
rsplitWsLoop(s, maxsplit, prev, iter, result, dec) ==
    IF ~(maxsplit # 0 /\ 0 < iter)
    THEN WithDec(Ok(Reverse(Append(result, Slice(s, 0, prev)))), dec)
    ELSE IF IsSpace(Unit(s, iter - 1)) THEN
        (IF SkipSpaceBack(s, iter - 1) = -2 THEN WithDec(UB, dec)
         ELSE rsplitWsLoop(s, DecCount(maxsplit), SkipSpaceBack(s, iter - 1) + 1,
                           SkipSpaceBack(s, iter - 1),
                           Append(result, Slice(s, iter, prev)), dec))
    ELSE rsplitWsLoop(s, maxsplit, prev, Dec(s, iter), result, TRUE)

(* rsplit (whitespace)                                                     *)
rsplitWs(s, maxsplit) == rsplitWsLoop(s, maxsplit, Len(s), Len(s), <<>>, FALSE)

RECURSIVE rsplitLoop(_, _, _, _, _, _, _, _)
rsplitLoop(s, sep, maxsplit, prev, iter, done, result, dec) ==
    IF ~(maxsplit # 0 /\ done < iter)
    THEN WithDec(Ok(Reverse(Append(result, Slice(s, 0, prev)))), dec)
    ELSE IF compare(s, iter - Len(sep), sep) THEN
        rsplitLoop(s, sep, DecCount(maxsplit), iter - Len(sep), iter - Len(sep), done,
                   Append(result, Slice(s, iter, prev)), dec)
    ELSE rsplitLoop(s, sep, maxsplit, prev, Dec(s, iter), done, result, TRUE)

(* rsplit (separator)                                                      *)
rsplit(s, sep, maxsplit) ==
    IF Len(sep) = 0 THEN WithDec(Throw, FALSE)
    ELSE rsplitLoop(s, sep, IF Len(s) < Len(sep) THEN 0 ELSE maxsplit,
                    Len(s), Len(s), Len(sep) - 1, <<>>, FALSE)

----------------------------------------------------------------------------
(* Alignment.                                                              *)

(* n copies of f.                                                          *)
RECURSIVE Fill(_, _)
Fill(f, n) == IF n = 0 THEN <<>> ELSE f \o Fill(f, n - 1)

(* The part of center, ljust and rjust before the padding: the fillchar    *)
(* check, then the width check.  Kind "pad" carries diff, the number of    *)
(* fill characters to add.                                                 *)
padding(s, width, fillchar) ==
    IF length(fillchar).kind = "hang" THEN Hang
    ELSE IF length(fillchar).val # 1 THEN Throw
    ELSE IF length(s).kind = "hang" THEN Hang
    ELSE IF width < length(s).val THEN Ok(s)
    ELSE [kind |-> "pad", val |-> width - length(s).val]

center(s, width, fillchar) ==
    LET d == padding(s, width, fillchar) IN
    IF d.kind # "pad" THEN d
    ELSE Ok(Fill(fillchar, d.val \div 2) \o s
                \o Fill(fillchar, d.val - (d.val \div 2)))

ljust(s, width, fillchar) ==
    LET d == padding(s, width, fillchar) IN
    IF d.kind # "pad" THEN d
    ELSE Ok(s \o Fill(fillchar, d.val))

rjust(s, width, fillchar) ==
    LET d == padding(s, width, fillchar) IN
    IF d.kind # "pad" THEN d
    ELSE Ok(Fill(fillchar, d.val) \o s)

----------------------------------------------------------------------------
(* Actions and specifications.                                             *)

InitSearch ==
    /\ op = "init"
    /\ self \in Strs(SearchUnits, MaxLen)
    /\ arg \in Strs(SearchUnits, MaxSub)
    /\ rep = <<>>
    /\ start \in 0..MaxLen
    /\ end \in (0..MaxLen) \cup {npos}
    /\ num = 0
    /\ pad \in {0, 169}
    /\ out = Ok(0)
    /\ NoCall
    /\ NoFormat

Find ==
    /\ op = "init"
    /\ op' = "find"
    /\ out' = find(self, arg, start, end)
    /\ UNCHANGED <<self, arg, rep, start, end, num, pad, callVars, formatVars>>

Rfind ==
    /\ op = "init"
    /\ op' = "rfind"
    /\ out' \in Outcomes(rfind(self, arg, start, end))
    /\ UNCHANGED <<self, arg, rep, start, end, num, pad, callVars, formatVars>>

Index ==
    /\ op = "init"
    /\ op' = "index"
    /\ out' = index(self, arg, start, end)
    /\ UNCHANGED <<self, arg, rep, start, end, num, pad, callVars, formatVars>>

Rindex ==
    /\ op = "init"
    /\ op' = "rindex"
    /\ out' \in Outcomes(rindex(self, arg, start, end))
    /\ UNCHANGED <<self, arg, rep, start, end, num, pad, callVars, formatVars>>

Count ==
    /\ op = "init"
    /\ op' = "count"
    /\ out' = count(self, arg, start, end)
    /\ UNCHANGED <<self, arg, rep, start, end, num, pad, callVars, formatVars>>

NextSearch == Find \/ Rfind \/ Index \/ Rindex \/ Count

SpecSearch == InitSearch /\ [][NextSearch]_vars

InitReplace ==
    /\ op = "init"
    /\ self \in Strs(SearchUnits, MaxLen)
    /\ arg \in Strs(SearchUnits, MaxSub)
    /\ rep \in Strs(SearchUnits, MaxSub)
    /\ start = 0
    /\ end = npos
    /\ num \in Limits
    /\ pad = 0
    /\ out = Ok(0)
    /\ NoCall
    /\ NoFormat

Replace ==
    /\ op = "init"
    /\ op' = "replace"
    /\ out' = replace(self, arg, rep, num)
    /\ UNCHANGED <<self, arg, rep, start, end, num, pad, callVars, formatVars>>

NextReplace == Replace

SpecReplace == InitReplace /\ [][NextReplace]_vars

InitSplit ==
    /\ op = "init"
    /\ self \in Strs(SplitUnits, MaxSplitLen)
    /\ arg \in Strs(SplitUnits, MaxSub)
    /\ rep = <<>>
    /\ start = 0
    /\ end = npos
    /\ num \in Limits
    /\ pad \in {0, 32}
    /\ out = Ok(0)
    /\ NoCall
    /\ NoFormat

Split ==
    /\ op = "init"
    /\ op' = "split"
    /\ out' = split(self, arg, num)
    /\ UNCHANGED <<self, arg, rep, start, end, num, pad, callVars, formatVars>>

Rsplit ==
    /\ op = "init"
    /\ op' = "rsplit"
    /\ out' \in Outcomes(rsplit(self, arg, num))
    /\ UNCHANGED <<self, arg, rep, start, end, num, pad, callVars, formatVars>>

SplitWs ==
    /\ op = "init"
    /\ op' = "splitws"
    /\ out' = splitWs(self, num)
    /\ UNCHANGED <<self, arg, rep, start, end, num, pad, callVars, formatVars>>

RsplitWs ==
    /\ op = "init"
    /\ op' = "rsplitws"
    /\ out' \in Outcomes(rsplitWs(self, num))
    /\ UNCHANGED <<self, arg, rep, start, end, num, pad, callVars, formatVars>>

NextSplit == Split \/ Rsplit \/ SplitWs \/ RsplitWs

SpecSplit == InitSplit /\ [][NextSplit]_vars

InitAlign ==
    /\ op = "init"
    /\ self \in Strs(SearchUnits, MaxLen)
    /\ arg \in Strs(SearchUnits, MaxSub)
    /\ rep = <<>>
    /\ start = 0
    /\ end = npos
    /\ num \in 0..MaxWidth
    /\ pad = 0
    /\ out = Ok(0)
    /\ NoCall
    /\ NoFormat

Center ==
    /\ op = "init"
    /\ op' = "center"
    /\ out' = center(self, num, arg)
    /\ UNCHANGED <<self, arg, rep, start, end, num, pad, callVars, formatVars>>

Ljust ==
    /\ op = "init"
    /\ op' = "ljust"
    /\ out' = ljust(self, num, arg)
    /\ UNCHANGED <<self, arg, rep, start, end, num, pad, callVars, formatVars>>

Rjust ==
    /\ op = "init"
    /\ op' = "rjust"
    /\ out' = rjust(self, num, arg)
    /\ UNCHANGED <<self, arg, rep, start, end, num, pad, callVars, formatVars>>

NextAlign == Center \/ Ljust \/ Rjust

SpecAlign == InitAlign /\ [][NextAlign]_vars

----------------------------------------------------------------------------
(* What the specification says the operations return, stated on units      *)
(* without any iterator.                                                   *)

Min(S) == CHOOSE x \in S : \A y \in S : x <= y
Max(S) == CHOOSE x \in S : \A y \in S : x >= y

(* min(m, k) for a limit m that may be the "no limit" sentinel.            *)
MinLimit(m, k) == IF m = npos THEN k ELSE IF m < k THEN m ELSE k

(* The unit offsets p in [st, min(en, |s|) - |sub|] where s holds sub.     *)
Matches(s, sub, st, en) ==
    {p \in 0..Len(s) : /\ st <= p
                       /\ p + Len(sub) <= MinSize(en, Len(s))
                       /\ Slice(s, p, p + Len(sub)) = sub}

(* The codepoint count of s: one per complete sequence, one per unit that  *)
(* starts none.                                                            *)
RECURSIVE RefLengthFrom(_, _)
RefLengthFrom(s, p) ==
    IF p >= Len(s) THEN 0
    ELSE 1 + RefLengthFrom(s, IF Inc(s, p) = p THEN p + 1 ELSE Inc(s, p))

RefLength(s) == RefLengthFrom(s, 0)

(* find called again and again, each call starting at the end of the       *)
(* previous match, until it reports not-found; more than |s| + 1 matches   *)
(* means it never does.                                                    *)
RECURSIVE RepeatFind(_, _, _, _)
RepeatFind(s, sub, st, n) ==
    LET r == find(s, sub, st, npos) IN
    IF r.kind # "ok" THEN r
    ELSE IF r.val = npos THEN Ok(n)
    ELSE IF n > Len(s) THEN Hang
    ELSE RepeatFind(s, sub, r.val + Len(sub), n + 1)

(* s from offset p on, with the first n non-overlapping occurrences of     *)
(* old substituted by str.                                                 *)
RECURSIVE RefReplace(_, _, _, _, _)
RefReplace(s, old, str, n, p) ==
    IF n = 0 \/ Matches(s, old, p, npos) = {} THEN Slice(s, p, Len(s))
    ELSE LET q == Min(Matches(s, old, p, npos))
         IN  Slice(s, p, q) \o str \o RefReplace(s, old, str, DecCount(n), q + Len(old))

RefSpace(u) == u = 32 \/ (u >= 9 /\ u <= 13)

SpacesFrom(s, p) == {i \in p..(Len(s) - 1) : RefSpace(s[i + 1])}
SpacesBefore(s, e) == {i \in 0..(e - 1) : RefSpace(s[i + 1])}

(* The end of the whitespace run that holds offset i, and its start.       *)
RunEnd(s, i) == Min({j \in (i + 1)..Len(s) : j = Len(s) \/ ~RefSpace(s[j + 1])})
RunStart(s, i) == Max({j \in 0..i : j = 0 \/ ~RefSpace(s[j])})

(* The pieces of s from offset p on, cut at the first m whitespace runs.   *)
RECURSIVE RefSplitWs(_, _, _)
RefSplitWs(s, m, p) ==
    IF m = 0 \/ SpacesFrom(s, p) = {} THEN <<Slice(s, p, Len(s))>>
    ELSE LET i == Min(SpacesFrom(s, p))
         IN  <<Slice(s, p, i)>> \o RefSplitWs(s, DecCount(m), RunEnd(s, i))

(* The pieces of s up to offset e, cut at the last m whitespace runs.      *)
RECURSIVE RefRsplitWs(_, _, _)
RefRsplitWs(s, m, e) ==
    IF m = 0 \/ SpacesBefore(s, e) = {} THEN <<Slice(s, 0, e)>>
    ELSE LET i == Max(SpacesBefore(s, e))
         IN  RefRsplitWs(s, DecCount(m), RunStart(s, i)) \o <<Slice(s, i + 1, e)>>

(* The pieces of s up to offset e, cut at the last m occurrences of sep.   *)
RECURSIVE RefRsplit(_, _, _, _)
RefRsplit(s, sep, m, e) ==
    IF m = 0 \/ Matches(s, sep, 0, e) = {} THEN <<Slice(s, 0, e)>>
    ELSE LET q == Max(Matches(s, sep, 0, e))
         IN  RefRsplit(s, sep, DecCount(m), q) \o <<Slice(s, q + Len(sep), e)>>

Justified == op \in {"center", "ljust", "rjust"}

(* The padded string the specification describes for diff missing          *)
(* codepoints.                                                             *)
RefPadded(o, s, f, diff) ==
    IF o = "center" THEN Fill(f, diff \div 2) \o s \o Fill(f, diff - (diff \div 2))
    ELSE IF o = "ljust" THEN s \o Fill(f, diff)
    ELSE Fill(f, diff) \o s

----------------------------------------------------------------------------
(* The claims.                                                             *)

(* C1: find returns the smallest unit offset p with start <= p and         *)
(* p + |sub| <= min(end, |self|) where self holds sub unit for unit, and   *)
(* size_t(-1) when there is none, also when sub is longer than self.       *)
C1_FindContract ==
    op = "find" =>
        /\ out.kind = "ok"
        /\ out.val = (IF Matches(self, arg, start, end) = {} THEN npos
                      ELSE Min(Matches(self, arg, start, end)))

(* C2: rfind returns the largest unit offset p with start <= p and         *)
(* p + |sub| <= min(end, |self|) where self holds sub, and size_t(-1)      *)
(* when there is none.                                                     *)
C2_RfindContract ==
    op = "rfind" =>
        /\ out.kind = "ok"
        /\ out.val = (IF Matches(self, arg, start, end) = {} THEN npos
                      ELSE Max(Matches(self, arg, start, end)))

(* C3: index and rindex return the offset find and rfind return when sub   *)
(* occurs in the range, and signal an error, never an offset, when it      *)
(* does not, also when sub is longer than self.                            *)
C3_IndexContract ==
    /\ op = "index" =>
           IF Matches(self, arg, start, end) = {} THEN out.kind = "throw"
           ELSE /\ out.kind = "ok"
                /\ find(self, arg, start, end).kind = "ok"
                /\ out.val = find(self, arg, start, end).val
    /\ op = "rindex" =>
           IF Matches(self, arg, start, end) = {} THEN out.kind = "throw"
           ELSE /\ out.kind = "ok"
                /\ rfind(self, arg, start, end).kind = "ok"
                /\ out.val = rfind(self, arg, start, end).val

(* C4: for a non-empty sub, count over the whole of s does what find       *)
(* called repeatedly from the end of the previous match does, and returns  *)
(* the number of matches that found before it reported not-found.          *)
C4_CountIsRepeatedFind ==
    (op = "count" /\ arg # <<>> /\ start = 0 /\ end = npos) =>
        /\ out.kind = RepeatFind(self, arg, 0, 0).kind
        /\ out.kind = "ok" => out.val = RepeatFind(self, arg, 0, 0).val

(* C5: for a non-empty old, replace returns s with the first min(n, k)     *)
(* left-to-right non-overlapping occurrences of old substituted by new     *)
(* and every other unit copied, the whole of s when old does not occur     *)
(* or is longer than s.                                                    *)
C5_ReplaceContract ==
    (op = "replace" /\ arg # <<>>) =>
        /\ out.kind = "ok"
        /\ out.val = RefReplace(self, arg, rep, num, 0)

(* C6: for a non-empty sep and no limit, joining the pieces of split(sep)  *)
(* or of rsplit(sep) with sep gives s back.                                *)
C6_SplitJoinRoundTrip ==
    (op \in {"split", "rsplit"} /\ arg # <<>> /\ num = npos) =>
        /\ out.kind = "ok"
        /\ join(arg, out.val) = self

(* C7: whitespace split cuts at the first min(m, runs) maximal runs of     *)
(* the units 0x09..0x0D and 0x20: it returns min(m, runs) + 1 pieces, the  *)
(* pieces before the last hold no separator unit, and the last piece is    *)
(* the rest of the string after the last run that was cut.                 *)
C7_SplitWsContract ==
    op = "splitws" =>
        /\ out.kind = "ok"
        /\ out.val = RefSplitWs(self, num, 0)

(* C8: rsplit counts maxsplit from the back and returns the pieces left    *)
(* to right: the last min(m, k) pieces are those cut off from the end and  *)
(* the first piece is the remaining prefix.                                *)
C8_RsplitContract ==
    /\ op = "rsplitws" =>
           /\ out.kind = "ok"
           /\ out.val = RefRsplitWs(self, num, Len(self))
    /\ (op = "rsplit" /\ arg # <<>>) =>
           /\ out.kind = "ok"
           /\ out.val = RefRsplit(self, arg, num, Len(self))

(* C9: for every s, every width w <= length(s) in codepoints and every     *)
(* fill f, center, ljust and rjust return s.                               *)
C9_JustifyNoOp ==
    (Justified /\ num <= RefLength(self)) =>
        /\ out.kind = "ok"
        /\ out.val = self

(* C10: for every s, every fill f of one codepoint and every width         *)
(* w > length(s), center returns floor(diff/2) fills, s and the remaining  *)
(* fills, ljust s and diff fills, rjust diff fills and s, where            *)
(* diff = w - length(s); the result has w codepoints.                      *)
C10_JustifyPads ==
    (Justified /\ RefLength(arg) = 1 /\ num > RefLength(self)) =>
        /\ out.kind = "ok"
        /\ out.val = RefPadded(op, self, arg, num - RefLength(self))
        /\ RefLength(out.val) = num

----------------------------------------------------------------------------
(* What the code does satisfy of these claims: the calls that return, on   *)
(* well-formed UTF-8 where the scan steps by codepoints, in a build whose  *)
(* operator-- carries on.                                                  *)

(* Every lead byte of s is followed by its continuation bytes and every    *)
(* other unit is ASCII.                                                    *)
RECURSIVE WellFormedFrom(_, _)
WellFormedFrom(s, p) ==
    IF p >= Len(s) THEN p = Len(s)
    ELSE /\ Inc(s, p) # p
         /\ Inc(s, p) = p + 1 => ascii(s[p + 1])
         /\ WellFormedFrom(s, Inc(s, p))

WellFormed(s) == WellFormedFrom(s, 0)

Fits == Len(arg) <= Len(self) /\ WellFormed(self) /\ WellFormed(arg)

FindOnWellFormed == (op = "find" /\ Fits) => C1_FindContract

RfindOnWellFormed == (op = "rfind" /\ Fits /\ out.kind # "ub") => C2_RfindContract

IndexOnWellFormed ==
    (op \in {"index", "rindex"} /\ Fits /\ out.kind # "ub") => C3_IndexContract

CountWhenSubFits == (op = "count" /\ Len(arg) <= Len(self)) => C4_CountIsRepeatedFind

ReplaceOnWellFormed == (op = "replace" /\ Fits) => C5_ReplaceContract

RoundTripWhenReturned ==
    (op \in {"split", "rsplit"} /\ out.kind \notin {"hang", "ub"}) => C6_SplitJoinRoundTrip

SplitWsWhenReturned == (op = "splitws" /\ out.kind # "hang") => C7_SplitWsContract

RsplitWhenReturned ==
    /\ (op = "rsplitws" /\ out.kind # "ub") => C8_RsplitContract
    /\ (op = "rsplit" /\ out.kind # "ub" /\ WellFormed(self) /\ WellFormed(arg))
           => C8_RsplitContract

NoOpWhenReturned == (Justified /\ out.kind = "ok") => C9_JustifyNoOp

PadsWhenReturned == (Justified /\ out.kind # "hang") => C10_JustifyPads

----------------------------------------------------------------------------
(* Codecs: the cursors and encoders of UTF-8, UTF-16 and UTF-32.           *)
(* A unit of a UTF-16 string is a char16_t, one of a UTF-32 string a       *)
(* char32_t; a codepoint handed to an encoder is a uint32_t.               *)

Encodings == {"UTF8", "UTF16", "UTF32"}

(* The C++ operators &, |, << and >> on non-negative integers.             *)
RECURSIVE BitAnd(_, _)
BitAnd(a, b) == IF a = 0 \/ b = 0 THEN 0
                ELSE (a % 2) * (b % 2) + 2 * BitAnd(a \div 2, b \div 2)

RECURSIVE BitOr(_, _)
BitOr(a, b) == IF a = 0 THEN b
               ELSE IF b = 0 THEN a
               ELSE (IF a % 2 = 1 \/ b % 2 = 1 THEN 1 ELSE 0)
                        + 2 * BitOr(a \div 2, b \div 2)

Shl(a, n) == a * 2^n
Shr(a, n) == a \div 2^n

(* The value of a bool used as an integer operand.                         *)
BoolInt(b) == IF b THEN 1 ELSE 0

(* cp & 0xF800 == 0xD8 as C++ parses it: == binds tighter than &, so the   *)
(* expression is cp & (0xF800 == 0xD8).                                    *)
SurrogateTest(cp) == BitAnd(cp, BoolInt(63488 = 216)) # 0

(* cp & 0xF800 != 0xD8 as C++ parses it: cp & (0xF800 != 0xD8).            *)
NotSurrogateTest(cp) == BitAnd(cp, BoolInt(63488 # 216)) # 0

(* UTF8Iterator::operator*                                                 *)
Deref8(s, p) ==
    LET ch == Unit(s, p)
        c1 == Unit(s, p + 1)
        c2 == Unit(s, p + 2)
        c3 == Unit(s, p + 3)
    IN
    IF ascii(ch) THEN ch
    ELSE IF ~head(ch) THEN -ch
    ELSE IF head2(ch) THEN
        IF ~tail(c1) THEN -ch
        ELSE LET codepoint == BitOr(Shl(BitAnd(ch, 31), 6), BitAnd(c1, 63))
             IN  IF codepoint < 128 THEN -1 ELSE codepoint
    ELSE IF head3(ch) THEN
        IF ~tail(c1) /\ ~tail(c2) THEN -ch
        ELSE LET codepoint == BitOr(BitOr(Shl(BitAnd(ch, 15), 12), Shl(BitAnd(c1, 63), 6)),
                                    BitAnd(c2, 63))
             IN  IF codepoint < 2048 \/ BitAnd(codepoint, 63488) = 55296 THEN -1
                 ELSE codepoint
    ELSE IF head4(ch) THEN
        IF ~tail(c1) /\ ~tail(c2) /\ ~tail(c3) THEN -ch
        ELSE LET codepoint == BitOr(BitOr(Shl(BitAnd(ch, 7), 18), Shl(BitAnd(c1, 63), 12)),
                                    BitOr(Shl(BitAnd(c2, 63), 6), BitAnd(c3, 63)))
             IN  IF codepoint < 65536 \/ codepoint > 1114111 THEN -1 ELSE codepoint
    ELSE -ch

(* UTF16Iterator.                                                          *)
is_surrogate_first(ch) == BitAnd(ch, 64512) = 55296
is_surrogate_last(ch) == BitAnd(ch, 64512) = 56320

(* UTF16Iterator::operator++                                               *)
Inc16(s, p) ==
    IF is_surrogate_first(Unit(s, p)) /\ is_surrogate_last(Unit(s, p + 1))
    THEN p + 2 ELSE p + 1

(* UTF16Iterator::operator--                                               *)
Dec16(s, p) ==
    IF is_surrogate_last(Unit(s, p - 1)) /\ is_surrogate_first(Unit(s, p - 2))
    THEN p - 2 ELSE p - 1

(* UTF16Iterator::operator*                                                *)
Deref16(s, p) ==
    IF is_surrogate_first(Unit(s, p)) /\ is_surrogate_last(Unit(s, p + 1))
    THEN Shl(BitAnd(Unit(s, p), 1023), 10) + BitAnd(Unit(s, p + 1), 1023) + 65536
    ELSE Unit(s, p)

(* UTF32Iterator::operator*                                                *)
Deref32(s, p) ==
    IF NotSurrogateTest(Unit(s, p)) /\ Unit(s, p) < 1114112 THEN Unit(s, p) ELSE -1

(* *encoding_traits<E>::iter(s.data() + p)                                 *)
Deref(E, s, p) == IF E = "UTF8" THEN Deref8(s, p)
                  ELSE IF E = "UTF16" THEN Deref16(s, p)
                  ELSE Deref32(s, p)

(* ++ on the cursor of encoding E at offset p.                             *)
Advance(E, s, p) == IF E = "UTF8" THEN Inc(s, p)
                    ELSE IF E = "UTF16" THEN Inc16(s, p)
                    ELSE p + 1

(* -- on the cursor of encoding E at offset p.                             *)
Retreat(E, s, p) == IF E = "UTF8" THEN Dec(s, p)
                    ELSE IF E = "UTF16" THEN Dec16(s, p)
                    ELSE p - 1

(* left - right with right at offset p and left at offset e.               *)
RECURSIVE Diff16(_, _, _, _)
Diff16(s, p, e, len) == IF ~(p < e) THEN Ok(len)
                        ELSE Diff16(s, Inc16(s, p), e, len + 1)

Difference(E, s, p, e) == IF E = "UTF8" THEN IterDiff(s, p, e, 0)
                          ELSE IF E = "UTF16" THEN Diff16(s, p, e, 0)
                          ELSE Ok(e - p)

(* The result of an encoder: whether it reported success, and the string   *)
(* after the call.                                                         *)
Appended(b, str) == [ok |-> b, str |-> str]

(* UTF8Encoder::append                                                     *)
append8(str, cp) ==
    IF cp < 128 THEN Appended(TRUE, str \o <<cp>>)
    ELSE IF cp < 2048 THEN
        Appended(TRUE, str \o <<BitOr(192, Shr(cp, 6)), BitOr(128, BitAnd(cp, 63))>>)
    ELSE IF cp < 65536 THEN
        IF SurrogateTest(cp) THEN Appended(FALSE, str)
        ELSE Appended(TRUE, str \o <<BitOr(224, Shr(cp, 12)),
                                     BitOr(128, BitAnd(Shr(cp, 6), 63)),
                                     BitOr(128, BitAnd(cp, 63))>>)
    ELSE IF cp < 1114112 THEN
        Appended(TRUE, str \o <<BitOr(240, Shr(cp, 18)),
                                BitOr(128, BitAnd(Shr(cp, 12), 63)),
                                BitOr(128, BitAnd(Shr(cp, 6), 63)),
                                BitOr(128, BitAnd(cp, 63))>>)
    ELSE Appended(FALSE, str)

(* UTF16Encoder::append                                                    *)
append16(str, cp) ==
    IF cp < 65536 THEN
        IF SurrogateTest(cp) THEN Appended(FALSE, str)
        ELSE Appended(TRUE, str \o <<cp>>)
    ELSE IF cp < 1114112 THEN
        LET c == cp - 10000
        IN  Appended(TRUE, str \o <<BitOr(55296, Shr(c, 10)), BitOr(56320, BitAnd(c, 1023))>>)
    ELSE Appended(FALSE, str)

(* UTF32Encoder::append                                                    *)
append32(str, cp) ==
    IF NotSurrogateTest(cp) /\ cp < 1114112 THEN Appended(TRUE, str \o <<cp>>)
    ELSE Appended(FALSE, str)

(* encoding_traits<E>::append(str, cp)                                     *)
append(E, str, cp) == IF E = "UTF8" THEN append8(str, cp)
                      ELSE IF E = "UTF16" THEN append16(str, cp)
                      ELSE append32(str, cp)

(* encoding_traits<E>::replacement                                         *)
replacement == 65533

----------------------------------------------------------------------------
(* One cursor or encoder operation on a string of encoding From.           *)

MaxChunks == 2

(* Unit sequences the strings are put together from: the encodings of 'A', *)
(* U+00E9, U+20AC and U+1F600, and sequences that encode no codepoint.     *)
Chunks(E) ==
    IF E = "UTF8" THEN
        { <<65>>, <<195, 169>>, <<226, 130, 172>>, <<240, 159, 152, 128>>,
          <<128>>, <<195>>, <<193, 129>>, <<224, 128, 128>>, <<226, 130, 65>>,
          <<237, 160, 128>>, <<244, 144, 128, 128>> }
    ELSE IF E = "UTF16" THEN
        { <<65>>, <<8364>>, <<55357, 56832>>, <<55296>>, <<56320>> }
    ELSE
        { <<65>>, <<66>>, <<128512>>, <<128513>>, <<55296>>, <<55297>>,
          <<1114112>>, <<1114113>> }

RECURSIVE Chunked(_, _)
Chunked(E, n) == IF n = 0 THEN {<<>>}
                 ELSE LET S == Chunked(E, n - 1)
                      IN  S \cup {s \o c : s \in S, c \in Chunks(E)}

(* What the memory around a string may hold.                               *)
PadUnits(E) == IF E = "UTF8" THEN {0, 128}
               ELSE IF E = "UTF16" THEN {0, 56320}
               ELSE {0}

(* Codepoints handed to an encoder: the ends of every range of lengths,    *)
(* the surrogates and values above U+10FFFF.                               *)
Codepoints == {0, 65, 66, 127, 128, 2047, 2048, 55295, 55296, 57343, 57344,
               65533, 65535, 65536, 65537, 1114110, 1114111, 1114112,
               2147483647}

InitCodec ==
    /\ op = "init"
    /\ From \in Encodings
    /\ self \in Chunked(From, MaxChunks)
    /\ start \in 0..Len(self)
    /\ end \in 0..Len(self)
    /\ start <= end
    /\ num \in (IF start = 0 /\ end = 0 THEN Codepoints ELSE {0})
    /\ pad \in PadUnits(From)
    /\ arg = <<>>
    /\ rep = <<>>
    /\ out = Ok(0)
    /\ mode = "Strict"
    /\ To = From
    /\ table = <<>>
    /\ skip = <<>>
    /\ NoFormat

(* *iter with iter at offset start.                                        *)
Dereference ==
    /\ op = "init"
    /\ start < Len(self)
    /\ op' = "deref"
    /\ out' = Ok(Deref(From, self, start))
    /\ UNCHANGED <<self, arg, rep, start, end, num, pad, callVars, formatVars>>

(* encoding_traits<From>::append(self, num)                                *)
AppendCodepoint ==
    /\ op = "init"
    /\ op' = "append"
    /\ out' = Ok(append(From, self, num))
    /\ UNCHANGED <<self, arg, rep, start, end, num, pad, callVars, formatVars>>

(* ++ iter with iter at offset start.                                      *)
Increment ==
    /\ op = "init"
    /\ start < Len(self)
    /\ op' = "inc"
    /\ out' = Ok(Advance(From, self, start))
    /\ UNCHANGED <<self, arg, rep, start, end, num, pad, callVars, formatVars>>

(* -- iter with iter at offset end.  UTF8Iterator::operator-- flows off    *)
(* the end of a function that returns a reference.                         *)
Decrement ==
    /\ op = "init"
    /\ end > 0
    /\ op' = "dec"
    /\ out' \in {Ok(Retreat(From, self, end))} \cup (IF From = "UTF8" THEN {UB} ELSE {})
    /\ UNCHANGED <<self, arg, rep, start, end, num, pad, callVars, formatVars>>

(* iter(end) - iter(start)                                                 *)
Subtract ==
    /\ op = "init"
    /\ op' = "diff"
    /\ out' = Difference(From, self, start, end)
    /\ UNCHANGED <<self, arg, rep, start, end, num, pad, callVars, formatVars>>

NextCodec == Dereference \/ AppendCodepoint \/ Increment \/ Decrement \/ Subtract

SpecCodec == InitCodec /\ [][NextCodec]_vars

----------------------------------------------------------------------------
(* Translation tables and translate.                                       *)

(* throw of the exception type e with a message about msg.                 *)
Raise(e, msg) == [kind |-> "throw", val |-> <<e, msg>>]

Errors == {"Strict", "Ignore", "Replace"}

(* encoding_traits<E>::append(str, cp) with an int32_t cp: the parameter   *)
(* is a uint32_t, and a negative int32_t converts to a value of at least   *)
(* 2^31, which every encoder refuses.                                      *)
appendInt(E, str, cp) == IF cp < 0 THEN Appended(FALSE, str) ELSE append(E, str, cp)

(* impl::Translation: the vector data, as its size() and the nodes that    *)
(* sit in its storage.                                                     *)
Node(key, value) == <<key, value>>

(* The constructor: reserve(n + m) leaves size() at 0, and the nodes are   *)
(* assigned through operator[] into the reserved storage.                  *)
Translation(x, y, z) ==
    [size |-> 0,
     nodes |-> [i \in 1..Len(x) |-> Node(SChar(x[i]), SChar(y[i]))]
                   \o [i \in 1..Len(z) |-> Node(SChar(z[i]), -1)]]

(* A table function given to translate directly: the function that maps   *)
(* the key of each node to its value and every other codepoint to itself.  *)
Function(nodes) == [size |-> Len(nodes), nodes |-> nodes]

(* Translation::operator(): the range-for visits the size() elements.      *)
RECURSIVE lookup(_, _, _)
lookup(tbl, i, in) ==
    IF i > tbl.size THEN in
    ELSE IF tbl.nodes[i][1] = in THEN tbl.nodes[i][2]
    ELSE lookup(tbl, i + 1, in)

(* The loop of translate for the policy m.  A step that leaves iter where  *)
(* it was repeats for ever.                                                *)
RECURSIVE translateLoop(_, _, _, _, _, _)
translateLoop(E, s, p, tbl, m, res) ==
    IF ~(p < Len(s)) THEN Ok(res)
    ELSE LET dec == Deref(E, s, p)
             next == Advance(E, s, p)
         IN
         IF m = "Strict" THEN
             IF dec < 0 THEN Raise("invalid_argument", "Decoding error")
             ELSE LET cp == lookup(tbl, 1, dec) IN
                  IF cp # -1 /\ ~appendInt(E, res, cp).ok
                  THEN Raise("invalid_argument", "Encoding error")
                  ELSE IF next = p THEN Hang
                  ELSE translateLoop(E, s, next, tbl, m,
                                     IF cp # -1 THEN appendInt(E, res, cp).str ELSE res)
         ELSE IF m = "Replace" THEN
             LET cp == lookup(tbl, 1, IF dec < 0 THEN replacement ELSE dec) IN
             IF next = p THEN Hang
             ELSE translateLoop(E, s, next, tbl, m,
                                IF cp = -1 THEN res
                                ELSE IF appendInt(E, res, cp).ok THEN appendInt(E, res, cp).str
                                ELSE append(E, res, replacement).str)
         ELSE
             IF next = p THEN Hang
             ELSE IF dec < 0 THEN translateLoop(E, s, next, tbl, m, res)
             ELSE LET cp == lookup(tbl, 1, dec) IN
                  translateLoop(E, s, next, tbl, m,
                                IF cp # -1 THEN appendInt(E, res, cp).str ELSE res)

translate(E, s, tbl, m) ==
    IF m \in Errors THEN translateLoop(E, s, 0, tbl, m, <<>>)
    ELSE Raise("invalid_argument", "mode")

(* Concatenations of at most n members of C.                               *)
RECURSIVE Concats(_, _)
Concats(C, n) == IF n = 0 THEN {<<>>}
                 ELSE LET S == Concats(C, n - 1)
                      IN  S \cup {s \o c : s \in S, c \in C}

(* 'A', 'B', U+00E9, U+FFFD, a stray continuation unit, a lead unit with   *)
(* no continuation unit, and U+20AC with its last unit replaced.           *)
TranslateChunks == { <<65>>, <<66>>, <<195, 169>>, <<239, 191, 189>>,
                     <<128>>, <<195>>, <<226, 130, 65>> }

(* Table functions: the identity; 'A' to 'B', to U+00E9, to the delete     *)
(* sentinel, to a surrogate, to a value above U+10FFFF and to another      *)
(* negative value; U+FFFD to '?'.                                          *)
Functions == { Function(<<>>),
               Function(<<Node(65, 66)>>),
               Function(<<Node(65, 233)>>),
               Function(<<Node(65, -1)>>),
               Function(<<Node(65, 55296)>>),
               Function(<<Node(65, 1114112)>>),
               Function(<<Node(65, -2)>>),
               Function(<<Node(65533, 63)>>) }

MaxTrans == 2

(* Either a table function is given, or maketrans is to build the table    *)
(* from arg, rep (of equal length) and skip.                               *)
InitTranslate ==
    /\ op = "init"
    /\ From = "UTF8"
    /\ To = "UTF8"
    /\ mode \in Errors
    /\ self \in Concats(TranslateChunks, MaxChunks)
    /\ \/ /\ table \in Functions
          /\ arg = <<>>
          /\ rep = <<>>
          /\ skip = <<>>
       \/ /\ table = Function(<<>>)
          /\ arg \in Strs({65, 66}, MaxTrans)
          /\ rep \in {r \in Strs({66, 67}, MaxTrans) : Len(r) = Len(arg)}
          /\ skip \in Strs({66, 67}, 1)
          /\ Len(arg) + Len(skip) > 0
    /\ start = 0
    /\ end = npos
    /\ num = 0
    /\ pad = 0
    /\ out = Ok(0)
    /\ NoFormat

(* better_string::maketrans(arg, rep, skip).  The constructor assigns      *)
(* elements of a vector whose size() is 0, which is undefined; a build     *)
(* either carries on with the nodes in the reserved storage or does        *)
(* anything else.                                                          *)
Maketrans ==
    /\ op = "init"
    /\ Len(arg) + Len(skip) > 0
    /\ op' = "maketrans"
    /\ \/ table' = Translation(arg, rep, skip) /\ out' = Ok(0)
       \/ table' = table /\ out' = UB
    /\ UNCHANGED <<self, arg, rep, start, end, num, pad, mode, From, To, skip, formatVars>>

(* self.translate(table, mode)                                             *)
Translate ==
    /\ \/ op = "init" /\ Len(arg) + Len(skip) = 0
       \/ op = "maketrans" /\ out.kind = "ok"
    /\ op' = "translate"
    /\ out' = translate(From, self, table, mode)
    /\ UNCHANGED <<self, arg, rep, start, end, num, pad, callVars, formatVars>>

NextTranslate == Maketrans \/ Translate

SpecTranslate == InitTranslate /\ [][NextTranslate]_vars

----------------------------------------------------------------------------
(* transcode<Input, ..., From, Output, ..., To>(input, output, mode), with *)
(* Input and Output references to strings of the unit types of From and    *)
(* To.  (better_string::transcode passes a const input, for which the      *)
(* overload for From != To is ill-formed: it appends to input.)            *)

(* The unit that push_back stores into a string of encoding F when the     *)
(* encoder of T hands it the unit u: UTF8Encoder hands over a char, which  *)
(* is signed, the other encoders a char16_t or a char32_t, and the value   *)
(* is converted to the unit type of F.  A char32_t of 2^31 or more is      *)
(* written here as that value minus 2^32.                                  *)
Stored(T, F, u) ==
    IF T = F THEN u
    ELSE IF T = "UTF8" THEN
        (IF F = "UTF16" THEN SChar(u) % 65536 ELSE SChar(u))
    ELSE IF F = "UTF8" THEN u % 256
    ELSE IF F = "UTF16" THEN u % 65536
    ELSE u

(* encoding_traits<T>::append(cur, cp) on a string cur of encoding F.      *)
appendTo(T, F, cur, cp) ==
    LET a == appendInt(T, <<>>, cp)
    IN  Appended(a.ok, cur \o [i \in 1..Len(a.str) |-> Stored(T, F, a.str[i])])

(* The result of transcode: the two strings after the call.                *)
Buffers(input, output) == [input |-> input, output |-> output]

(* An outcome of the loops with the note whether input has grown: an       *)
(* append to input may move its storage, which iter and done point into.   *)
Grown(r, cur, done) == [kind |-> r.kind, val |-> r.val, grown |-> Len(cur) > done]

(* The loops of the overload for From != To.  iter and done were taken     *)
(* from input before the loop; cur is input as the appends have left it.   *)
RECURSIVE transcodeLoop(_, _, _, _, _, _)
transcodeLoop(F, T, cur, p, done, m) ==
    IF (IF F = "UTF32" THEN p = done ELSE ~(p < done)) THEN Grown(Ok(cur), cur, done)
    ELSE LET cp == Deref(F, cur, p) IN
         IF m = "Strict" /\ cp < 0
         THEN Grown(Raise("invalid_argument", "Decoding error"), cur, done)
         ELSE IF m = "Strict" /\ ~appendTo(T, F, cur, cp).ok
         THEN Grown(Raise("invalid_argument", "Encoding error"), cur, done)
         ELSE LET after ==
                      IF m = "Strict" THEN appendTo(T, F, cur, cp).str
                      ELSE IF m = "Replace" THEN
                          (IF cp < 0 \/ ~appendTo(T, F, cur, cp).ok
                           THEN appendTo(T, F, cur, replacement).str
                           ELSE appendTo(T, F, cur, cp).str)
                      ELSE IF cp > 0 THEN appendTo(T, F, cur, cp).str
                      ELSE cur
              IN  IF Advance(F, after, p) = p THEN Grown(Hang, after, done)
                  ELSE transcodeLoop(F, T, after, Advance(F, after, p), done, m)

(* The overload chosen by From == To or From != To: the outcomes of the    *)
(* call.  Once input has grown the call may have done anything.            *)
transcode(F, T, input, output, m) ==
    IF F = T THEN {Ok(Buffers(input, input))}
    ELSE IF m \notin Errors THEN {Raise("invalid_argument", "mode")}
    ELSE LET r == transcodeLoop(F, T, input, 0, Len(input), m)
         IN  {IF r.kind = "ok" THEN Ok(Buffers(r.val, output))
              ELSE [kind |-> r.kind, val |-> r.val]}
                 \cup (IF r.grown THEN {UB} ELSE {})

(* The strings of encoding E given to transcode: those of the cursors,     *)
(* and those with U+0000.                                                  *)
TranscodeInputs(E) == Concats(Chunks(E) \cup {<<0>>}, MaxChunks)

InitTranscode ==
    /\ op = "init"
    /\ From \in Encodings
    /\ To \in Encodings
    /\ mode \in Errors
    /\ self \in TranscodeInputs(From)
    /\ pad \in PadUnits(From)
    /\ arg = <<>>
    /\ rep = <<>>
    /\ skip = <<>>
    /\ table = <<>>
    /\ start = 0
    /\ end = npos
    /\ num = 0
    /\ out = Ok(0)
    /\ NoFormat

(* transcode<From, To>(self, result, mode) with an empty result.           *)
Transcode ==
    /\ op = "init"
    /\ op' = "transcode"
    /\ out' \in transcode(From, To, self, <<>>, mode)
    /\ UNCHANGED <<self, arg, rep, start, end, num, pad, callVars, formatVars>>

NextTranscode == Transcode

SpecTranscode == InitTranscode /\ [][NextTranscode]_vars

----------------------------------------------------------------------------
(* format and format1 on a template self with num arguments.  One step of  *)
(* the machine is one pass of the while loop of format1.                   *)

(* A size_t as four 16-bit limbs, the lowest first: the index of a field   *)
(* is computed modulo 2^64.                                                *)
Size(n) == <<n, 0, 0, 0>>

(* index * 10 + d on size_t.                                               *)
MulAdd(x, d) ==
    LET t0 == x[1] * 10 + d
        t1 == x[2] * 10 + (t0 \div 65536)
        t2 == x[3] * 10 + (t1 \div 65536)
        t3 == x[4] * 10 + (t2 \div 65536)
    IN  <<t0 % 65536, t1 % 65536, t2 % 65536, t3 % 65536>>

(* index >= count, for a count below 2^16.                                 *)
AtLeast(x, cnt) == x[2] # 0 \/ x[3] # 0 \/ x[4] # 0 \/ x[1] >= cnt

(* A scanner that takes no unit for a digit, so that every field is        *)
(* automatic: the variant of is_digit that C17 is checked against.         *)
no_digit(ch) == FALSE

is_digit(ch) == ch >= 48 /\ ch <= 57
is_conv(ch) == ch = 97 \/ ch = 114 \/ ch = 115

(* The digits of a manual index from offset p on: the index and the       *)
(* offset after the last digit.                                            *)
RECURSIVE digits(_, _, _)
digits(s, p, idx) ==
    IF p < Len(s) /\ is_digit(Unit(s, p))
    THEN digits(s, p + 1, MulAdd(idx, Unit(s, p) - 48))
    ELSE [index |-> idx, iter |-> p]

(* The scan for the end of a format specification: the offset of the '}'   *)
(* that brings level to 0, with level 0; or the end of the string with the *)
(* level left; or a hang, when next does not move.                         *)
RECURSIVE specEnd(_, _, _)
specEnd(s, p, level) ==
    IF ~(p < Len(s)) THEN [kind |-> "ok", iter |-> p, level |-> level]
    ELSE IF Unit(s, p) = 125 /\ level = 1 THEN [kind |-> "ok", iter |-> p, level |-> 0]
    ELSE IF Inc(s, p) = p THEN [kind |-> "hang", iter |-> p, level |-> level]
    ELSE specEnd(s, Inc(s, p),
                 IF Unit(s, p) = 123 THEN level + 1
                 ELSE IF Unit(s, p) = 125 THEN level - 1
                 ELSE level)

(* The units that the formatter of argument idx appends to result,        *)
(* written as one negative value.                                          *)
Rendered(idx) == -(idx + 1)

(* The state of format1 after a step that goes on, and after one that      *)
(* ends the call with the outcome r.                                       *)
Running(f) == [frame |-> f, out |-> Ok(0), op |-> "format1"]
Ended(f, r) == [frame |-> f, out |-> r, op |-> "done"]

(* The part of the '{' branch from the index check on: idx is the index   *)
(* of the field, p the offset after its index, pos the position counter   *)
(* and res the result so far.                                              *)
field(s, cnt, f, idx, p, pos, res) ==
    LET bang == Unit(s, p) = 33
        q == IF bang THEN p + 1 ELSE p
        conv == IF bang THEN Unit(s, q) ELSE 0
        colon == Unit(s, q) = 58
        scan == specEnd(s, q + 1, 1)
        e == IF colon THEN scan.iter ELSE q
        spec == IF colon THEN Slice(s, q + 1, e) ELSE <<>>
    IN
    IF AtLeast(idx, cnt)
    THEN Ended(f, Raise("out_of_range", "Argument index out of range"))
    ELSE IF Unit(s, p) = 91
    THEN Ended(f, Raise("logic_error", "Not implemented!"))
    ELSE IF bang /\ ~is_conv(Unit(s, q))
    THEN Ended(f, Raise("invalid_argument", "Invalid conversion"))
    ELSE IF colon /\ scan.kind = "hang"
    THEN Ended(f, Hang)
    ELSE IF colon /\ scan.level > 0
    THEN Ended(f, Raise("invalid_argument", "Unterminated format sequence"))
    ELSE IF Unit(s, e) # 125
    THEN Ended(f, Raise("invalid_argument", "Unterminated format sequence"))
    ELSE Running([iter |-> e + 1, from |-> e + 1, position |-> pos,
                  result |-> res \o <<Rendered(idx[1])>>,
                  calls |-> f.calls \o <<[index |-> idx[1], conv |-> conv, spec |-> spec]>>])

(* The '{' branch of the loop.                                             *)
openBrace(s, cnt, f) ==
    LET res == f.result \o Slice(s, f.from, f.iter)
        p == f.iter + 1
    IN
    IF Unit(s, p) = 123
    THEN Running([f EXCEPT !.iter = p + 1, !.from = p, !.result = res])
    ELSE IF is_digit(Unit(s, p)) THEN
        IF f.position # 0 /\ f.position # npos
        THEN Ended(f, Raise("invalid_argument", "Switching from automatic to manual indexing"))
        ELSE LET d == digits(s, p + 1, Size(Unit(s, p) - 48))
             IN  field(s, cnt, f, d.index, d.iter, npos, res)
    ELSE
        IF f.position = npos
        THEN Ended(f, Raise("invalid_argument", "Switching from manual to automatic indexing"))
        ELSE field(s, cnt, f, Size(f.position), p, f.position + 1, res)

(* A '}' branch that takes every '}' for text: the variant of closeBrace   *)
(* that C20 is checked against.                                            *)
braceAsText(s, f) == Running([f EXCEPT !.iter = f.iter + 1])

(* The '}' branch of the loop.                                             *)
closeBrace(s, f) ==
    IF Unit(s, f.iter + 1) # 125
    THEN Ended(f, Raise("invalid_argument", "Single '}' in format string"))
    ELSE Running([f EXCEPT !.iter = f.iter + 2, !.from = f.iter + 1,
                           !.result = f.result \o Slice(s, f.from, f.iter)])

(* The last branch of the loop: iter = next(iter).                         *)
skipText(s, f) ==
    IF Inc(s, f.iter) = f.iter THEN Ended(f, Hang)
    ELSE Running([f EXCEPT !.iter = Inc(s, f.iter)])

(* The units of the templates: '{', '}', '0', '1', ':', '!', 'a', '[' and  *)
(* a lead unit of UTF-8.                                                   *)
TemplateUnits == {123, 125, 48, 49, 58, 33, 97, 91, 195}

(* The pieces templates are put together from: fields with automatic and   *)
(* with manual indexes, with a conversion and with specifications, doubled *)
(* and single braces, text, and a field whose index is 2^64.              *)
TemplatePieces ==
    { <<123, 125>>, <<123, 48, 125>>, <<123, 49, 125>>,
      <<123, 123>>, <<125, 125>>, <<123>>, <<125>>,
      <<97>>, <<195, 169>>, <<195>>,
      <<123, 58, 97, 125>>, <<123, 48, 58, 123, 125, 125>>, <<123, 33, 97, 125>>,
      <<123, 49, 56, 52, 52, 54, 55, 52, 52, 48, 55, 51, 55, 48, 57, 53, 53, 49, 54, 49, 54, 125>> }

MaxTemplate == 3
MaxPieces == 3
MaxArgs == 2

InitFormat ==
    /\ op = "init"
    /\ self \in Strs(TemplateUnits, MaxTemplate) \cup Concats(TemplatePieces, MaxPieces)
    /\ num \in 0..MaxArgs
    /\ arg = <<>>
    /\ rep = <<>>
    /\ start = 0
    /\ end = npos
    /\ pad = 0
    /\ out = Ok(0)
    /\ NoCall
    /\ NoFormat

(* format(self, values...): the call of format1 with position 0 and the    *)
(* set-up of its locals.                                                   *)
Format ==
    /\ op = "init"
    /\ op' = "format1"
    /\ frame' = [iter |-> 0, from |-> 0, position |-> 0, result |-> <<>>, calls |-> <<>>]
    /\ UNCHANGED <<self, arg, rep, start, end, num, pad, out, callVars>>

(* A pass of the loop at a '{'.                                            *)
OpenBrace ==
    /\ op = "format1"
    /\ frame.iter < Len(self)
    /\ Unit(self, frame.iter) = 123
    /\ LET n == openBrace(self, num, frame)
       IN  frame' = n.frame /\ out' = n.out /\ op' = n.op
    /\ UNCHANGED <<self, arg, rep, start, end, num, pad, callVars>>

(* A pass of the loop at a '}'.                                            *)
CloseBrace ==
    /\ op = "format1"
    /\ frame.iter < Len(self)
    /\ Unit(self, frame.iter) = 125
    /\ LET n == closeBrace(self, frame)
       IN  frame' = n.frame /\ out' = n.out /\ op' = n.op
    /\ UNCHANGED <<self, arg, rep, start, end, num, pad, callVars>>

(* A pass of the loop at any other unit.                                   *)
SkipText ==
    /\ op = "format1"
    /\ frame.iter < Len(self)
    /\ Unit(self, frame.iter) \notin {123, 125}
    /\ LET n == skipText(self, frame)
       IN  frame' = n.frame /\ out' = n.out /\ op' = n.op
    /\ UNCHANGED <<self, arg, rep, start, end, num, pad, callVars>>

(* The end of the loop: the rest of the string is copied and the result    *)
(* returned.                                                               *)
Return ==
    /\ op = "format1"
    /\ ~(frame.iter < Len(self))
    /\ op' = "done"
    /\ out' = Ok(frame.result \o Slice(self, frame.from, Len(self)))
    /\ UNCHANGED <<self, arg, rep, start, end, num, pad, callVars, formatVars>>

NextFormat == Format \/ OpenBrace \/ CloseBrace \/ SkipText \/ Return

SpecFormat == InitFormat /\ [][NextFormat]_vars

----------------------------------------------------------------------------
(* impl::Specifier: the parser of the format specification of a field,     *)
(* [[fill]align][sign][#][0][width][,][.precision][type].  The             *)
(* specification is a view into the template, where a '}' follows it: like *)
(* the terminator that Unit gives at the end, it is no continuation unit,  *)
(* which is all that next reads of it.                                     *)

(* The view that string_literal<Char, c>() converts to.  The function      *)
(* returns a pointer to an array that holds c and no terminator, and the   *)
(* view takes its length from the first 0 it finds: it reads behind the    *)
(* array, which is undefined.  The builds produce a view of no unit, of c  *)
(* alone, and of c with the ' ' of the literal that lies behind it.        *)
Literals(c) == { <<>>, <<c>>, <<c, 32>> }

(* size_t(-1) in limbs: the width and the precision of a specification     *)
(* that gives none.                                                        *)
NoSize == <<65535, 65535, 65535, 65535>>

is_align(ch) == ch = 60 \/ ch = 62 \/ ch = 61 \/ ch = 94
is_sign(ch) == ch = 43 \/ ch = 45 \/ ch = 32
is_alpha(ch) == (ch >= 65 /\ ch <= 90) \/ (ch >= 97 /\ ch <= 122)

(* The fields of a Specifier as its member initializers leave them.        *)
NoSpecifier ==
    [type |-> 0, sign |-> 0, align |-> 0, alter |-> FALSE, comma |-> FALSE,
     width |-> NoSize, precision |-> NoSize, fill |-> <<>>, other |-> <<>>]

(* The constructor from the type on: sp holds the fields read so far, p is *)
(* iter.                                                                   *)
specType(s, sp, p) ==
    IF p < Len(s) /\ is_alpha(Unit(s, p))
    THEN [sp EXCEPT !.type = Unit(s, p),
                    !.other = IF p + 1 < Len(s) THEN Slice(s, p + 1, Len(s)) ELSE <<>>]
    ELSE sp

(* The constructor from the comma on.                                      *)
specPrecision(s, sp, p) ==
    LET c == p < Len(s) /\ Unit(s, p) = 44
        q == IF c THEN p + 1 ELSE p
        d == digits(s, q + 1, Size(0))
    IN  IF q < Len(s) /\ Unit(s, q) = 46
        THEN specType(s, [sp EXCEPT !.comma = c, !.precision = d.index], d.iter)
        ELSE specType(s, [sp EXCEPT !.comma = c], q)

(* The constructor from the zero padding on; zero is the view of          *)
(* string_literal<Char, '0'>().                                            *)
specWidth(s, sp, p, zero) ==
    LET z == p < Len(s) /\ Unit(s, p) = 48
        q == IF z THEN p + 1 ELSE p
        zp == IF z THEN [sp EXCEPT !.align = IF sp.align = 0 THEN 61 ELSE sp.align,
                                   !.fill = IF sp.fill = <<>> THEN zero ELSE sp.fill]
              ELSE sp
        d == digits(s, q + 1, Size(Unit(s, q) - 48))
    IN  IF q < Len(s) /\ is_digit(Unit(s, q))
        THEN specPrecision(s, [zp EXCEPT !.width = d.index], d.iter)
        ELSE specPrecision(s, zp, q)

(* The constructor from the sign on.                                       *)
specSign(s, sp, p, zero) ==
    LET g == p < Len(s) /\ is_sign(Unit(s, p))
        q == IF g THEN p + 1 ELSE p
        a == q < Len(s) /\ Unit(s, q) = 35
    IN  specWidth(s, [sp EXCEPT !.sign = IF g THEN Unit(s, p) ELSE 0, !.alter = a],
                  IF a THEN q + 1 ELSE q, zero)

(* Specifier(spec).                                                        *)
Specifier(s, zero) ==
    LET second == Inc(s, 0) IN
    IF Len(s) = 0 THEN NoSpecifier
    ELSE IF second < Len(s) /\ is_align(Unit(s, second))
    THEN specSign(s, [NoSpecifier EXCEPT !.fill = Slice(s, 0, second),
                                         !.align = Unit(s, second)], second + 1, zero)
    ELSE IF is_align(Unit(s, 0))
    THEN specSign(s, [NoSpecifier EXCEPT !.align = Unit(s, 0)], 1, zero)
    ELSE specSign(s, NoSpecifier, 0, zero)

----------------------------------------------------------------------------
(* The renderers format__ of strings and of integers.                      *)

(* A width or precision as a number: the allocation of a padding of 2^16   *)
(* or more fill characters is not part of the model.                       *)
Number(x) == x[1]
Allocated(x) == x[2] = 0 /\ x[3] = 0 /\ x[4] = 0

(* algorithm::string::truncate: the loop at offset p with size codepoints  *)
(* counted.                                                                *)
RECURSIVE truncateLoop(_, _, _, _)
truncateLoop(s, width, p, size) ==
    IF ~(p < Len(s)) THEN Ok(s)
    ELSE IF AtLeast(width, size) /\ ~AtLeast(width, size + 1) THEN Ok(Slice(s, 0, p))
    ELSE IF Inc(s, p) = p THEN Hang
    ELSE truncateLoop(s, width, Inc(s, p), size + 1)

truncate(s, width) == truncateLoop(s, width, 0, 0)

(* The alignment of a rendered text r in a field of width w.               *)
aligned(r, sp, w) ==
    IF ~Allocated(w) THEN Raise("bad_alloc", "")
    ELSE IF sp.align = 60 THEN ljust(r, Number(w), sp.fill)
    ELSE IF sp.align = 62 THEN rjust(r, Number(w), sp.fill)
    ELSE IF sp.align = 94 THEN center(r, Number(w), sp.fill)
    ELSE Ok(r)

(* better_string_view::format__(str, spec); space is the view of           *)
(* string_literal<Char, ' '>().                                            *)
string_format(str, sp, space) ==
    LET cut == IF sp.precision # NoSize THEN truncate(str, sp.precision) ELSE Ok(str)
        dp == [sp EXCEPT !.align = IF sp.align = 0 THEN 60 ELSE sp.align,
                         !.fill = IF sp.fill = <<>> THEN space ELSE sp.fill]
    IN
    IF sp.type # 0 /\ sp.type # 115
    THEN Raise("invalid_argument", "Invalid format code!")
    ELSE IF sp.sign # 0
    THEN Raise("invalid_argument", "Sign is not allowed!")
    ELSE IF sp.align = 61
    THEN Raise("invalid_argument", "Numeric alignment (=) is not allowed!")
    ELSE IF sp.alter
    THEN Raise("invalid_argument", "Alternate form (#) is not allowed!")
    ELSE IF sp.comma
    THEN Raise("invalid_argument", "Comma separator (,) is not allowed!")
    ELSE IF sp.other # <<>>
    THEN Raise("invalid_argument", "Invalid format specification!")
    ELSE IF cut.kind # "ok" THEN cut
    ELSE IF sp.width = NoSize THEN cut
    ELSE aligned(cut.val, dp, sp.width)

(* The base of an integer type code, 0 for a code that names none.         *)
base_of(type) ==
    IF type = 98 THEN 2
    ELSE IF type = 111 THEN 8
    ELSE IF type \in {0, 100, 110} THEN 10
    ELSE IF type \in {120, 88} THEN 16
    ELSE 0

(* The digits of n in base b, the highest first, from "0123456789ABCDEF"   *)
(* for the type 'X' and "0123456789abcdef" otherwise.                      *)
RECURSIVE number_of(_, _, _)
number_of(n, b, type) ==
    LET d == n % b
        ch == IF d < 10 THEN 48 + d ELSE IF type = 88 THEN 55 + d ELSE 87 + d
    IN  IF n \div b > 0 THEN number_of(n \div b, b, type) \o <<ch>> ELSE <<ch>>

(* The type 'c' of the integers: the codepoint of the value, or the        *)
(* replacement character, formatted as a string.                           *)
char_format(value, sp, space) ==
    LET temp == appendInt("UTF8", <<>>, value)
    IN  string_format(IF temp.ok THEN temp.str
                      ELSE append("UTF8", temp.str, replacement).str,
                      [sp EXCEPT !.type = 115], space)

(* format_proxy<int64_t>::type::format__ and, with signed FALSE,           *)
(* format_proxy<uint64_t>::type::format__, which differs in the sign only. *)
integer_format(value, sp, signed, space) ==
    LET b == base_of(sp.type)
        sg == IF signed /\ value < 0 THEN <<45>>
              ELSE IF sp.sign # 0 THEN <<43>>
              ELSE <<>>
        result == sg \o (IF sp.alter /\ b # 10 THEN <<48, sp.type>> ELSE <<>>)
        number == number_of(IF value < 0 THEN -value ELSE value, b, sp.type)
        dp == [sp EXCEPT !.align = IF sp.align = 0 THEN 62 ELSE sp.align,
                         !.fill = IF sp.fill = <<>> THEN space ELSE sp.fill]
        n == Len(result) + Len(number)
    IN
    IF sp.type = 99 THEN char_format(value, sp, space)
    ELSE IF sp.type \in {101, 69, 102, 70, 103, 71, 37}
    THEN Raise("logic_error", "Not implemented!")
    ELSE IF b = 0
    THEN Raise("invalid_argument", "Invalid format code!")
    ELSE IF sp.comma
    THEN Raise("invalid_argument", "Comma separator (,) is not allowed!")
    ELSE IF sp.precision # NoSize
    THEN Raise("invalid_argument", "Precision (.) is not allowed!")
    ELSE IF sp.other # <<>>
    THEN Raise("invalid_argument", "Invalid format specification!")
    ELSE IF sp.width = NoSize THEN Ok(result \o number)
    ELSE IF ~Allocated(sp.width) THEN Raise("bad_alloc", "")
    ELSE IF dp.align = 61 /\ Number(sp.width) > n
    THEN aligned(result \o Fill(dp.fill, Number(sp.width) - n) \o number, dp, sp.width)
    ELSE aligned(result \o number, dp, sp.width)

int64_format(value, sp, space) == integer_format(value, sp, TRUE, space)
uint64_format(value, sp, space) == integer_format(value, sp, FALSE, space)

(* The specifications the integers are rendered under: one choice for     *)
(* each part of the grammar.  The last width is 2^64 + 1.                  *)
SpecFills ==
    { <<>>, <<60>>, <<62>>, <<61>>, <<94>>, <<120, 60>>, <<48, 62>>,
      <<195, 169, 94>>, <<240, 159, 152, 128, 61>> }
SpecSigns == { <<>>, <<43>>, <<45>>, <<32>> }
SpecAlters == { <<>>, <<35>> }
SpecWidths ==
    { <<>>, <<54>>, <<48, 54>>, <<50>>,
      <<49, 56, 52, 52, 54, 55, 52, 52, 48, 55, 51, 55, 48, 57, 53, 53, 49, 54, 49, 55>> }
SpecTails ==
    { <<>>, <<98>>, <<111>>, <<100>>, <<110>>, <<120>>, <<88>>, <<99>>, <<101>>,
      <<115>>, <<37>>, <<44>>, <<46, 50>>, <<44, 100>>, <<46, 50, 100>>,
      <<100, 113>>, <<46>> }

SpecStrings ==
    { f \o g \o a \o w \o t :
        f \in SpecFills, g \in SpecSigns, a \in SpecAlters, w \in SpecWidths, t \in SpecTails }

(* '<', '+', '#', '0', '6', ',', '.', 'd', a lead unit and a continuation  *)
(* unit of UTF-8.                                                          *)
SpecUnits == {60, 43, 35, 48, 54, 44, 46, 100, 195, 169}

MaxSpec == 2

IntegerValues == {-42, -1, 0, 7, 42, 255}

InitInteger ==
    /\ op = "init"
    /\ self \in SpecStrings \cup Strs(SpecUnits, MaxSpec)
    /\ num \in IntegerValues
    /\ arg = <<>>
    /\ rep = <<>>
    /\ start = 0
    /\ end = npos
    /\ pad = 0
    /\ out = Ok(0)
    /\ NoCall
    /\ NoFormat

(* impl::Specifier(self)                                                   *)
ParseSpecifier ==
    /\ op = "init"
    /\ op' = "spec"
    /\ \E zero \in Literals(48) : out' = Ok(Specifier(self, zero))
    /\ UNCHANGED <<self, arg, rep, start, end, num, pad, callVars, formatVars>>

(* format_proxy<int64_t>::type::format__(num, self)                        *)
FormatInt64 ==
    /\ op = "init"
    /\ op' = "int64"
    /\ \E zero \in Literals(48), space \in Literals(32) :
          out' = int64_format(num, Specifier(self, zero), space)
    /\ UNCHANGED <<self, arg, rep, start, end, num, pad, callVars, formatVars>>

(* format_proxy<uint64_t>::type::format__(num, self)                       *)
FormatUint64 ==
    /\ op = "init"
    /\ num >= 0
    /\ op' = "uint64"
    /\ \E zero \in Literals(48), space \in Literals(32) :
          out' = uint64_format(num, Specifier(self, zero), space)
    /\ UNCHANGED <<self, arg, rep, start, end, num, pad, callVars, formatVars>>

NextInteger == ParseSpecifier \/ FormatInt64 \/ FormatUint64

SpecInteger == InitInteger /\ [][NextInteger]_vars

----------------------------------------------------------------------------
(* quote: repr__ and ascii__ of a string view.                             *)

(* digits[d] of "0123456789abcdef"                                         *)
hexdigit(d) == IF d < 10 THEN 48 + d ELSE 87 + d

(* The units that one pass of the loop body appends to the result for the  *)
(* value dec of *iter; ch is dec as a uint32_t, at least 2^31 for a        *)
(* negative dec.  The case of '\0' has no continue and runs on into the    *)
(* case of '\a'.                                                           *)
quoted(T, dec, Ascii) ==
    IF dec \in {39, 34, 92} THEN <<92, dec>>
    ELSE IF dec = 0 THEN <<92, 48, 92, 97>>
    ELSE IF dec = 7 THEN <<92, 97>>
    ELSE IF dec = 8 THEN <<92, 98>>
    ELSE IF dec = 12 THEN <<92, 102>>
    ELSE IF dec = 10 THEN <<92, 110>>
    ELSE IF dec = 13 THEN <<92, 114>>
    ELSE IF dec = 9 THEN <<92, 116>>
    ELSE IF dec = 11 THEN <<92, 118>>
    ELSE IF (dec >= 0 /\ dec < 32) \/ (Ascii /\ (dec < 0 \/ dec >= 128)) THEN
        IF dec >= 0 /\ dec < 65536 THEN
            <<92, 117, hexdigit(BitAnd(Shr(dec, 12), 15)), hexdigit(BitAnd(Shr(dec, 8), 15)),
              hexdigit(BitAnd(Shr(dec, 4), 15)), hexdigit(BitAnd(dec, 15))>>
        ELSE IF dec >= 0 /\ dec < 1114112 THEN
            <<92, 85, hexdigit(BitAnd(Shr(dec, 28), 15)), hexdigit(BitAnd(Shr(dec, 24), 15)),
              hexdigit(BitAnd(Shr(dec, 20), 15)), hexdigit(BitAnd(Shr(dec, 16), 15)),
              hexdigit(BitAnd(Shr(dec, 12), 15)), hexdigit(BitAnd(Shr(dec, 8), 15)),
              hexdigit(BitAnd(Shr(dec, 4), 15)), hexdigit(BitAnd(dec, 15))>>
        ELSE IF Ascii THEN <<63>>
        ELSE append(T, <<>>, replacement).str
    ELSE IF Ascii THEN <<dec>>
    ELSE IF appendInt(T, <<>>, dec).ok THEN appendInt(T, <<>>, dec).str
    ELSE append(T, <<>>, replacement).str

(* The loop of quote from iter = p on.  A step that leaves iter where it   *)
(* was repeats for ever.                                                   *)
RECURSIVE quoteLoop(_, _, _, _, _, _)
quoteLoop(F, T, s, p, res, Ascii) ==
    IF ~(p < Len(s)) THEN Ok(Append(res, 34))
    ELSE IF Advance(F, s, p) = p THEN Hang
    ELSE quoteLoop(F, T, s, Advance(F, s, p), res \o quoted(T, Deref(F, s, p), Ascii), Ascii)

quote(F, T, s, Ascii) == quoteLoop(F, T, s, 0, <<34>>, Ascii)

(* '"', '\'', '\\', 'a', DEL, U+0000, U+0001, '\a', '\n', U+00E9, U+20AC,  *)
(* U+1F600, a stray continuation unit, a lead unit with no continuation    *)
(* unit, and a surrogate half.                                             *)
QuoteChunks == { <<34>>, <<39>>, <<92>>, <<97>>, <<127>>, <<0>>, <<1>>, <<7>>, <<10>>,
                 <<195, 169>>, <<226, 130, 172>>, <<240, 159, 152, 128>>,
                 <<128>>, <<195>>, <<237, 160, 128>> }

MaxQuote == 2

InitQuote ==
    /\ op = "init"
    /\ self \in Concats(QuoteChunks, MaxQuote) \cup { <<c>> : c \in {8, 9, 11, 12, 13} }
    /\ arg = <<>>
    /\ rep = <<>>
    /\ start = 0
    /\ end = npos
    /\ num = 0
    /\ pad = 0
    /\ out = Ok(0)
    /\ NoCall
    /\ NoFormat

(* better_string_view::repr__(self)                                        *)
repr__ ==
    /\ op = "init"
    /\ op' = "repr"
    /\ out' = quote(From, To, self, FALSE)
    /\ UNCHANGED <<self, arg, rep, start, end, num, pad, callVars, formatVars>>

(* better_string_view::ascii__(self)                                       *)
ascii__ ==
    /\ op = "init"
    /\ op' = "ascii"
    /\ out' = quote(From, To, self, TRUE)
    /\ UNCHANGED <<self, arg, rep, start, end, num, pad, callVars, formatVars>>

NextQuote == repr__ \/ ascii__

SpecQuote == InitQuote /\ [][NextQuote]_vars

----------------------------------------------------------------------------
(* expandtabs.                                                             *)

(* The loop of expandtabs from iter = p on; cnt is count.                  *)
RECURSIVE expandtabsLoop(_, _, _, _, _, _)
expandtabsLoop(E, s, p, tabsize, cnt, res) ==
    IF ~(p < Len(s)) THEN Ok(res)
    ELSE IF Advance(E, s, p) = p THEN Hang
    ELSE LET cp == Deref(E, s, p) IN
         IF cp = 9
         THEN expandtabsLoop(E, s, Advance(E, s, p), tabsize, 0,
                             res \o Fill(<<32>>, IF cnt < tabsize THEN tabsize - cnt ELSE 0))
         ELSE expandtabsLoop(E, s, Advance(E, s, p), tabsize,
                             IF cnt + 1 = tabsize \/ cp = 13 \/ cp = 10 THEN 0 ELSE cnt + 1,
                             appendInt(E, res, cp).str)

(* expandtabs with one space for every tab.                                *)
oneSpace(E, s, tabsize) == expandtabsLoop(E, s, 0, 1, 0, <<>>)

expandtabs(E, s, tabsize) == expandtabsLoop(E, s, 0, tabsize, 0, <<>>)

(* '\t', 'a', '\n', '\r', U+00E9, a stray continuation unit and a lead     *)
(* unit with no continuation unit.                                         *)
TabChunks == { <<9>>, <<97>>, <<10>>, <<13>>, <<195, 169>>, <<128>>, <<195>> }

MaxTabs == 4
MaxTabsize == 3

InitTabs ==
    /\ op = "init"
    /\ self \in Concats(TabChunks, MaxTabs)
    /\ num \in 0..MaxTabsize
    /\ arg = <<>>
    /\ rep = <<>>
    /\ start = 0
    /\ end = npos
    /\ pad = 0
    /\ out = Ok(0)
    /\ NoCall
    /\ NoFormat

(* self.expandtabs(num)                                                    *)
Expandtabs ==
    /\ op = "init"
    /\ op' = "expandtabs"
    /\ out' = expandtabs(From, self, num)
    /\ UNCHANGED <<self, arg, rep, start, end, num, pad, callVars, formatVars>>

NextTabs == Expandtabs

SpecTabs == InitTabs /\ [][NextTabs]_vars

----------------------------------------------------------------------------
(* The loops of length and of count, one pass of the loop body at a time:  *)
(* start is the position of the iterator that moves, end the position of   *)
(* the one it is compared with, num the counter of the loop.               *)

(* The counters are followed up to MaxSteps, which no call on a string of  *)
(* MaxLen units reaches by counting what the string holds.                 *)
MaxSteps == 6

Stepped(n) == IF n < MaxSteps THEN n + 1 ELSE n

InitLoops ==
    /\ op = "init"
    /\ self \in Strs(SearchUnits, MaxLen)
    /\ arg \in Strs(SearchUnits, MaxSub)
    /\ rep = <<>>
    /\ start = 0
    /\ end = npos
    /\ num = 0
    /\ pad = 0
    /\ out = Ok(0)
    /\ NoCall
    /\ NoFormat

(* self.length(): the iterators of operator- are made.                     *)
CallLength ==
    /\ op = "init"
    /\ op' = "length"
    /\ start' = 0
    /\ end' = Len(self)
    /\ num' = 0
    /\ UNCHANGED <<self, arg, rep, pad, out, callVars, formatVars>>

(* operator-: {++ len; ++ right;}                                          *)
StepLength ==
    /\ op = "length"
    /\ start < end
    /\ num' = Stepped(num)
    /\ start' = Inc(self, start)
    /\ UNCHANGED <<op, self, arg, rep, end, pad, out, callVars, formatVars>>

(* operator-: return len                                                   *)
ReturnLength ==
    /\ op = "length"
    /\ ~(start < end)
    /\ op' = "done"
    /\ out' = Ok(num)
    /\ UNCHANGED <<self, arg, rep, start, end, num, pad, callVars, formatVars>>

(* self.count(arg): the check of the lengths, and the iterators.           *)
CallCount ==
    /\ op = "init"
    /\ IF Len(self) < Len(arg)
       THEN /\ op' = "done"
            /\ out' = Ok(0)
            /\ UNCHANGED <<start, end, num>>
       ELSE /\ op' = "count"
            /\ start' = 0
            /\ end' = Len(self) - Len(arg) + 1
            /\ num' = 0
            /\ UNCHANGED out
    /\ UNCHANGED <<self, arg, rep, pad, callVars, formatVars>>

(* count: one pass of the while loop.                                      *)
StepCount ==
    /\ op = "count"
    /\ start < end
    /\ IF compare(self, start, arg)
       THEN /\ start' = start + Len(arg)
            /\ num' = Stepped(num)
       ELSE /\ start' = Inc(self, start)
            /\ UNCHANGED num
    /\ UNCHANGED <<op, self, arg, rep, end, pad, out, callVars, formatVars>>

(* count: return result                                                    *)
ReturnCount ==
    /\ op = "count"
    /\ ~(start < end)
    /\ op' = "done"
    /\ out' = Ok(num)
    /\ UNCHANGED <<self, arg, rep, start, end, num, pad, callVars, formatVars>>

NextLoops ==
    \/ CallLength \/ StepLength \/ ReturnLength
    \/ CallCount \/ StepCount \/ ReturnCount

SpecLoops == InitLoops /\ [][NextLoops]_vars

(* A call that has begun runs on: a pass that can change the state is      *)
(* taken.                                                                  *)
LiveLoops == SpecLoops /\ WF_vars(NextLoops)

----------------------------------------------------------------------------
(* zfill, and the offsets of self.data() that it reads.                    *)

(* The offsets operator++ reads at the position p: ptr[0], and behind a    *)
(* lead unit ptr[1], ptr[2] and ptr[3] as far as the && chain goes.        *)
incReads(s, p) ==
    LET ch == Unit(s, p) IN
    IF ~head(ch) THEN {p}
    ELSE IF head2(ch) THEN {p, p + 1}
    ELSE IF head3(ch) THEN
        {p, p + 1} \cup (IF tail(Unit(s, p + 1)) THEN {p + 2} ELSE {})
    ELSE IF head4(ch) THEN
        {p, p + 1} \cup (IF tail(Unit(s, p + 1)) THEN {p + 2} ELSE {})
                   \cup (IF tail(Unit(s, p + 1)) /\ tail(Unit(s, p + 2)) THEN {p + 3} ELSE {})
    ELSE {p}

(* The offsets operator- reads from right = p up to left = e.              *)
RECURSIVE lengthReads(_, _, _)
lengthReads(s, p, e) ==
    IF ~(p < e) THEN {}
    ELSE IF Inc(s, p) = p THEN incReads(s, p)
    ELSE incReads(s, p) \cup lengthReads(s, Inc(s, p), e)

(* zfill(self, width).  With an empty self and a sign read at data()[0]    *)
(* the copy is of size() - 1 units, size_t(-1) of them.                    *)
zfill(s, width) ==
    LET len == length(s)
        first == Unit(s, 0)
    IN
    IF len.kind # "ok" THEN len
    ELSE IF width < len.val THEN Ok(s)
    ELSE IF first \in {43, 45} THEN
        IF Len(s) = 0 THEN UB
        ELSE Ok(<<first>> \o Fill(<<48>>, width - len.val) \o Slice(s, 1, Len(s)))
    ELSE Ok(Fill(<<48>>, width - len.val) \o s)

(* The offsets of self.data() that zfill(self, width) reads: those of      *)
(* length(), those of the copy that is returned when no padding is needed, *)
(* and else data()[0] and those of Traits::copy.                           *)
zfillReads(s, width) ==
    LET len == length(s)
        first == Unit(s, 0)
    IN
    lengthReads(s, 0, Len(s))
        \cup (IF len.kind # "ok" THEN {}
              ELSE IF width < len.val THEN 0..(Len(s) - 1)
              ELSE IF first \in {43, 45} THEN {0} \cup 1..(Len(s) - 1)
              ELSE {0} \cup 0..(Len(s) - 1))

(* '+', '-', 'a', and the units of U+00E9, a lead unit and a continuation  *)
(* unit.                                                                   *)
ZfillUnits == {43, 45, 97, 195, 169}

InitZfill ==
    /\ op = "init"
    /\ self \in Strs(ZfillUnits, MaxLen)
    /\ num \in 0..MaxWidth
    /\ arg = <<>>
    /\ rep = <<>>
    /\ start = 0
    /\ end = npos
    /\ pad = 0
    /\ out = Ok(0)
    /\ NoCall
    /\ NoFormat

(* self.zfill(num)                                                         *)
Zfill ==
    /\ op = "init"
    /\ op' = "zfill"
    /\ out' = zfill(self, num)
    /\ UNCHANGED <<self, arg, rep, start, end, num, pad, callVars, formatVars>>

NextZfill == Zfill

SpecZfill == InitZfill /\ [][NextZfill]_vars

----------------------------------------------------------------------------
(* The encodings as the Unicode standard defines them, for the claims      *)
(* about the codecs.                                                       *)

(* A Unicode scalar value.                                                 *)
Scalar(cp) == cp >= 0 /\ cp <= 1114111 /\ ~(cp >= 55296 /\ cp <= 57343)

(* The number of units a UTF-8 lead byte announces; 0 for a unit that      *)
(* leads nothing.                                                          *)
RefLen8(ch) == IF ch < 128 THEN 1
               ELSE IF ch >= 192 /\ ch <= 223 THEN 2
               ELSE IF ch >= 224 /\ ch <= 239 THEN 3
               ELSE IF ch >= 240 /\ ch <= 247 THEN 4
               ELSE 0

(* The payload of the n-unit UTF-8 sequence at offset p.                   *)
RefValue8(s, p, n) ==
    IF n = 1 THEN s[p + 1]
    ELSE IF n = 2 THEN (s[p + 1] - 192) * 64 + (s[p + 2] % 64)
    ELSE IF n = 3 THEN (s[p + 1] - 224) * 4096 + (s[p + 2] % 64) * 64 + (s[p + 3] % 64)
    ELSE (s[p + 1] - 240) * 262144 + (s[p + 2] % 64) * 4096
              + (s[p + 3] % 64) * 64 + (s[p + 4] % 64)

(* The smallest codepoint that needs n UTF-8 units.                        *)
RefMin8(n) == IF n = 1 THEN 0 ELSE IF n = 2 THEN 128 ELSE IF n = 3 THEN 2048 ELSE 65536

RefHigh(u) == u >= 55296 /\ u <= 56319
RefLow(u) == u >= 56320 /\ u <= 57343

(* What offset p < Len(s) of s holds: [class |-> "good", cp, len] for a    *)
(* well-formed encoding of a scalar value; class "bad" for a surrogate     *)
(* half, an overlong encoding, a value above U+10FFFF or a sequence with   *)
(* an invalid continuation unit; class "other" for what the standard does  *)
(* not class as a sequence start inside the string (a stray continuation   *)
(* unit, a unit that leads nothing, a sequence cut off by the end).        *)
RefGood(cp, len) == [class |-> "good", cp |-> cp, len |-> len]
RefBad == [class |-> "bad", cp |-> 0, len |-> 0]
RefOther == [class |-> "other", cp |-> 0, len |-> 0]

RefAt(E, s, p) ==
    IF E = "UTF8" THEN
        LET n == RefLen8(s[p + 1]) IN
        IF n = 0 \/ p + n > Len(s) THEN RefOther
        ELSE IF \E i \in 2..n : ~(s[p + i] >= 128 /\ s[p + i] <= 191) THEN RefBad
        ELSE IF RefValue8(s, p, n) < RefMin8(n) \/ ~Scalar(RefValue8(s, p, n)) THEN RefBad
        ELSE RefGood(RefValue8(s, p, n), n)
    ELSE IF E = "UTF16" THEN
        LET u == s[p + 1] IN
        IF RefHigh(u) THEN
            IF p + 2 <= Len(s) /\ RefLow(s[p + 2])
            THEN RefGood(65536 + (u - 55296) * 1024 + (s[p + 2] - 56320), 2)
            ELSE RefBad
        ELSE IF RefLow(u) THEN
            (IF p > 0 /\ RefHigh(s[p]) THEN RefOther ELSE RefBad)
        ELSE RefGood(u, 1)
    ELSE
        IF Scalar(s[p + 1]) THEN RefGood(s[p + 1], 1) ELSE RefBad

(* The offsets of s from p on at which a codepoint starts, when s is       *)
(* well-formed from p on; {-1} joins the set when it is not.               *)
RECURSIVE RefStarts(_, _, _)
RefStarts(E, s, p) ==
    IF p >= Len(s) THEN {p}
    ELSE IF RefAt(E, s, p).class # "good" THEN {-1}
    ELSE {p} \cup RefStarts(E, s, p + RefAt(E, s, p).len)

RefWellFormed(E, s) == -1 \notin RefStarts(E, s, 0)

(* C14: for each encoding, dereferencing the cursor gives a negative value *)
(* at a position that holds a surrogate half, an overlong encoding, a      *)
(* value above U+10FFFF or a sequence with an invalid continuation unit,   *)
(* and the scalar value at a position that holds a well-formed encoding.   *)
C14_DerefContract ==
    op = "deref" =>
        LET r == RefAt(From, self, start) IN
        /\ r.class = "bad" => out.val < 0
        /\ r.class = "good" => out.val = r.cp

(* C15: for each encoding and codepoint, append reports success exactly    *)
(* for a scalar value, appends nothing on failure, and on success the      *)
(* appended units decode to the codepoint again.                           *)
C15_AppendContract ==
    op = "append" =>
        /\ out.val.ok <=> Scalar(num)
        /\ ~out.val.ok => out.val.str = self
        /\ out.val.ok =>
              /\ Len(out.val.str) > Len(self)
              /\ SubSeq(out.val.str, 1, Len(self)) = self
              /\ Deref(From, out.val.str, Len(self)) = num

(* C16: on a well-formed sequence ++ moves forward by the units of the     *)
(* codepoint under the cursor, -- moves back by the units of the codepoint *)
(* that ends at the cursor, each undoes the other, and the difference of   *)
(* two cursors is the number of codepoints between them.                   *)
C16_CursorSteps ==
    (RefWellFormed(From, self) /\ {start, end} \subseteq RefStarts(From, self, 0)) =>
        /\ op = "inc" =>
              /\ out = Ok(start + RefAt(From, self, start).len)
              /\ Retreat(From, self, out.val) = start
        /\ op = "dec" =>
              /\ out.kind = "ok"
              /\ out.val \in RefStarts(From, self, 0)
              /\ out.val + RefAt(From, self, out.val).len = end
              /\ Advance(From, self, out.val) = end
        /\ op = "diff" =>
              out = Ok(Cardinality({q \in RefStarts(From, self, 0) : start <= q /\ q < end}))

(* What the codecs do satisfy of these claims.                             *)

(* The UTF-8 and UTF-16 cursors decode every well-formed encoding.         *)
DerefOfWellFormed ==
    (op = "deref" /\ From # "UTF32" /\ RefAt(From, self, start).class = "good")
        => out.val = RefAt(From, self, start).cp

(* The UTF-8 encoder is right on every scalar value, the UTF-16 encoder on *)
(* those below U+10000, and every encoder refuses a value above U+10FFFF.  *)
AppendOfScalar ==
    (op = "append" /\ \/ From = "UTF8" /\ Scalar(num)
                      \/ From = "UTF16" /\ Scalar(num) /\ num < 65536
                      \/ num > 1114111)
        => C15_AppendContract

(* On a well-formed sequence ++ and the difference are right in every      *)
(* encoding, and -- is right in UTF-16 and UTF-32.                         *)
StepsOnWellFormed ==
    (RefWellFormed(From, self) /\ {start, end} \subseteq RefStarts(From, self, 0)) =>
        /\ op = "inc" => out = Ok(start + RefAt(From, self, start).len)
        /\ op = "diff" =>
              out = Ok(Cardinality({q \in RefStarts(From, self, 0) : start <= q /\ q < end}))
        /\ (op = "dec" /\ From # "UTF8") =>
              /\ out.kind = "ok"
              /\ out.val \in RefStarts(From, self, 0)
              /\ out.val + RefAt(From, self, out.val).len = end

----------------------------------------------------------------------------
(* Translation and transcoding as the claims state them.                   *)

(* The units of the scalar value cp in encoding E, by the standard.        *)
RefEncode(E, cp) ==
    IF E = "UTF8" THEN
        IF cp < 128 THEN <<cp>>
        ELSE IF cp < 2048 THEN <<192 + (cp \div 64), 128 + (cp % 64)>>
        ELSE IF cp < 65536 THEN
            <<224 + (cp \div 4096), 128 + ((cp \div 64) % 64), 128 + (cp % 64)>>
        ELSE <<240 + (cp \div 262144), 128 + ((cp \div 4096) % 64),
               128 + ((cp \div 64) % 64), 128 + (cp % 64)>>
    ELSE IF E = "UTF16" THEN
        IF cp < 65536 THEN <<cp>>
        ELSE <<55296 + ((cp - 65536) \div 1024), 56320 + ((cp - 65536) % 1024)>>
    ELSE <<cp>>

(* The codepoints of s from offset p on, in order; -1 stands for a decode  *)
(* failure, which takes one unit.                                          *)
RECURSIVE RefDecodeFrom(_, _, _)
RefDecodeFrom(E, s, p) ==
    IF p >= Len(s) THEN <<>>
    ELSE IF RefAt(E, s, p).class = "good"
         THEN <<RefAt(E, s, p).cp>> \o RefDecodeFrom(E, s, p + RefAt(E, s, p).len)
         ELSE <<-1>> \o RefDecodeFrom(E, s, p + 1)

(* The policy m applied to the codepoints cps, of which a negative one is  *)
(* a decode failure and one that is no scalar value an encode failure:     *)
(* the outcome of the whole call.                                          *)
RECURSIVE RefPolicy(_, _, _, _)
RefPolicy(E, cps, m, res) ==
    IF cps = <<>> THEN Ok(res)
    ELSE LET cp == Head(cps) IN
         IF Scalar(cp) THEN RefPolicy(E, Tail(cps), m, res \o RefEncode(E, cp))
         ELSE IF m = "Strict" THEN Raise("invalid_argument", "error")
         ELSE IF m = "Replace"
              THEN RefPolicy(E, Tail(cps), m, res \o RefEncode(E, replacement))
         ELSE RefPolicy(E, Tail(cps), m, res)

(* The codepoints translate hands on: the table applied to every decoded   *)
(* codepoint, without those it maps to the delete sentinel; a decode       *)
(* failure stays one.                                                      *)
RECURSIVE RefTabled(_, _)
RefTabled(tbl, cps) ==
    IF cps = <<>> THEN <<>>
    ELSE LET cp == Head(cps)
             t == IF cp < 0 THEN -1 ELSE lookup(tbl, 1, cp)
         IN
         IF cp < 0 THEN <<-1>> \o RefTabled(tbl, Tail(cps))
         ELSE IF t = -1 THEN RefTabled(tbl, Tail(cps))
         ELSE <<IF t < 0 THEN 1114112 ELSE t>> \o RefTabled(tbl, Tail(cps))

(* The first index at which v holds u.                                     *)
FirstAt(v, u) == Min({i \in 1..Len(v) : v[i] = u})

Holds(v, u) == \E i \in 1..Len(v) : v[i] = u

(* What the table of maketrans(x, y, z) is to do with the codepoint cp.    *)
RefTable(x, y, z, cp) == IF Holds(x, cp) THEN y[FirstAt(x, cp)]
                         ELSE IF Holds(z, cp) THEN -1
                         ELSE cp

(* An ASCII string translated by the table of maketrans(x, y, z).          *)
RECURSIVE RefTranslated(_, _, _, _)
RefTranslated(x, y, z, s) ==
    IF s = <<>> THEN <<>>
    ELSE (IF RefTable(x, y, z, Head(s)) = -1 THEN <<>> ELSE <<RefTable(x, y, z, Head(s))>>)
             \o RefTranslated(x, y, z, Tail(s))

Built == Len(arg) + Len(skip) > 0

(* C11: the table built from from, to and a delete set maps from[i] to     *)
(* to[i], every member of the delete set to -1 and every other codepoint   *)
(* to itself, and translate with it rewrites the mapped characters and     *)
(* drops the deleted ones.                                                 *)
C11_TranslationTable ==
    /\ op = "maketrans" =>
          /\ out.kind = "ok"
          /\ \A cp \in 65..68 : lookup(table, 1, cp) = RefTable(arg, rep, skip, cp)
    /\ (op = "translate" /\ Built /\ \A i \in 1..Len(self) : self[i] < 128) =>
          out = Ok(RefTranslated(arg, rep, skip, self))

(* C12: translate applies the table to each decoded codepoint in order;    *)
(* on a decode or encode failure Strict ends the call with an error,       *)
(* Replace emits the replacement codepoint in its place, Ignore drops it;  *)
(* a table result of -1 drops the character in every mode.                 *)
C12_TranslatePolicy ==
    op = "translate" =>
        LET want == RefPolicy(From, RefTabled(table, RefDecodeFrom(From, self, 0)), mode, <<>>)
        IN  IF want.kind = "throw" THEN out.kind = "throw" ELSE out = want

(* C13: transcode writes the codepoints of the input, encoded in To, into  *)
(* its output and leaves the input as it was; Strict ends the call with an *)
(* error on the first decode or encode failure, Replace puts the           *)
(* replacement codepoint in its place, Ignore drops the failing codepoints *)
(* and keeps every valid one, U+0000 too; with From equal to To the output *)
(* is a copy of the input.                                                 *)
C13_TranscodeContract ==
    op = "transcode" =>
        LET want == RefPolicy(To, RefDecodeFrom(From, self, 0), mode, <<>>) IN
        IF From = To THEN out = Ok(Buffers(self, self))
        ELSE IF want.kind = "throw" THEN out.kind = "throw"
        ELSE out = Ok(Buffers(self, want.val))

(* What translate and transcode do satisfy.                                *)

(* A call of translate that ends follows the policy, for a table that maps *)
(* to no surrogate and, on input with decode failures, leaves U+FFFD       *)
(* alone.                                                                  *)
TranslateWhenReturned ==
    (/\ op = "translate"
     /\ out.kind # "hang"
     /\ table # Function(<<Node(65, 55296)>>)
     /\ table = Function(<<Node(65533, 63)>>) => RefWellFormed(From, self))
        => C12_TranslatePolicy

(* With From equal to To the output is a copy of the input, which is left  *)
(* as it was.                                                              *)
TranscodeSameEncoding ==
    (op = "transcode" /\ From = To) => out = Ok(Buffers(self, self))

----------------------------------------------------------------------------
(* The templates as the format grammar defines them, for the claims about  *)
(* format: a field is '{' [index] ['!' conv] [':' spec] '}', braces nest   *)
(* inside a field, '{{' and '}}' outside a field are literal braces.       *)

RefDigit(u) == u \in 48..57

RefUnit(s, p) == IF p < Len(s) THEN s[p + 1] ELSE 0

(* The offset of the '}' that closes a field, from offset p on at nesting  *)
(* depth level; Len(s) when the field is not closed.                       *)
RECURSIVE RefClose(_, _, _)
RefClose(s, p, level) ==
    IF p >= Len(s) THEN Len(s)
    ELSE IF s[p + 1] = 125 THEN (IF level = 1 THEN p ELSE RefClose(s, p + 1, level - 1))
    ELSE IF s[p + 1] = 123 THEN RefClose(s, p + 1, level + 1)
    ELSE RefClose(s, p + 1, level)

(* The fields of a template from offset p on, in order, up to the first    *)
(* field that is not closed or the first single '}': where each starts and *)
(* ends and whether its index is explicit.                                 *)
RECURSIVE RefFields(_, _)
RefFields(s, p) ==
    IF p >= Len(s) THEN <<>>
    ELSE IF s[p + 1] = 123 THEN
        IF RefUnit(s, p + 1) = 123 THEN RefFields(s, p + 2)
        ELSE LET c == RefClose(s, p + 1, 1)
             IN  <<[at |-> p, explicit |-> RefDigit(RefUnit(s, p + 1)), close |-> c]>>
                 \o (IF c < Len(s) THEN RefFields(s, c + 1) ELSE <<>>)
    ELSE IF s[p + 1] = 125 THEN
        IF RefUnit(s, p + 1) = 125 THEN RefFields(s, p + 2) ELSE <<>>
    ELSE RefFields(s, p + 1)

(* A template with a field of each style.                                  *)
RefMixed(s) ==
    LET fs == RefFields(s, 0)
    IN  \E i, j \in DOMAIN fs : fs[i].explicit # fs[j].explicit

SwitchError(explicit) ==
    Raise("invalid_argument",
          IF explicit THEN "Switching from automatic to manual indexing"
          ELSE "Switching from manual to automatic indexing")

(* C17: within one call of format the first field fixes the indexing mode: *)
(* the pass of the loop at a field of the other style than a field before  *)
(* it ends the call with the indexing-mode argument error, and a call on a *)
(* template that has fields of both styles never returns a result.         *)
C17_IndexingMode ==
    /\ [][\A i \in DOMAIN RefFields(self, 0) :
            LET fs == RefFields(self, 0)
            IN  (/\ op = "format1"
                 /\ frame.iter = fs[i].at
                 /\ \E j \in 1..(i - 1) : fs[j].explicit # fs[i].explicit)
                => /\ op' = "done"
                   /\ out' = SwitchError(fs[i].explicit)]_vars
    /\ [](op = "done" /\ RefMixed(self) => out.kind # "ok")

(* A call that rendered a field with an explicit index and ended at a      *)
(* later automatic field.                                                  *)
C17_Witness ==
    /\ op = "done"
    /\ out = SwitchError(FALSE)
    /\ Len(frame.calls) >= 1
    /\ RefMixed(self)

(* The digits of an explicit index, from offset p on.                      *)
RECURSIVE RefDigits(_, _)
RefDigits(s, p) ==
    IF RefDigit(RefUnit(s, p)) THEN <<RefUnit(s, p) - 48>> \o RefDigits(s, p + 1)
    ELSE <<>>

(* The number a sequence of decimal digits writes, after the digits in v;  *)
(* every number above 9999 is given as 10000, which is above every number  *)
(* of arguments.                                                           *)
RECURSIVE RefNumber(_, _)
RefNumber(ds, v) ==
    IF ds = <<>> THEN v
    ELSE RefNumber(Tail(ds), IF v * 10 + Head(ds) > 9999 THEN 10000 ELSE v * 10 + Head(ds))

(* The index of the i-th field of a template whose fields before it have   *)
(* its style: the number it writes, or the count of the fields before it.  *)
RefIndex(s, i) ==
    LET fs == RefFields(s, 0)
    IN  IF fs[i].explicit THEN RefNumber(RefDigits(s, fs[i].at + 1), 0) ELSE i - 1

(* The loop is at the i-th field of the template and every field before it *)
(* has its style.                                                          *)
AtField(i) ==
    LET fs == RefFields(self, 0)
    IN  /\ op = "format1"
        /\ frame.iter = fs[i].at
        /\ \A j \in 1..(i - 1) : fs[j].explicit = fs[i].explicit

(* The pass of the loop at the i-th field resolves it: with an index that  *)
(* is not below the number of arguments the call ends with the range error *)
(* and no formatter is called; otherwise, if the call goes on, the         *)
(* formatter of the argument at the index has rendered it.                 *)
Resolved(i) ==
    IF RefIndex(self, i) >= num
    THEN /\ op' = "done"
         /\ out' = Raise("out_of_range", "Argument index out of range")
         /\ frame'.calls = frame.calls
    ELSE op' = "format1" =>
            /\ Len(frame'.calls) = Len(frame.calls) + 1
            /\ frame'.calls[Len(frame'.calls)].index = RefIndex(self, i)
            /\ frame'.result # <<>>
            /\ frame'.result[Len(frame'.result)] = Rendered(RefIndex(self, i))

(* C18: every field resolves to the argument at its index, the number an   *)
(* explicit index writes or the count of the automatic fields before it,   *)
(* and a field whose index is not below the number of arguments ends the   *)
(* call with the range error and renders nothing.                          *)
C18_FieldIndex ==
    [][\A i \in DOMAIN RefFields(self, 0) : AtField(i) => Resolved(i)]_vars

(* What holds of the index: the same, for the automatic indexes and the    *)
(* explicit indexes of at most 19 digits, which are below 2^64.            *)
IndexBelowWrap ==
    [][\A i \in DOMAIN RefFields(self, 0) :
         (AtField(i) /\ Len(RefDigits(self, RefFields(self, 0)[i].at + 1)) <= 19)
         => Resolved(i)]_vars

(* The loop is at the i-th field of the template, which no '}' closes.     *)
AtUnclosed(i) ==
    LET fs == RefFields(self, 0)
    IN  /\ op = "format1"
        /\ frame.iter = fs[i].at
        /\ fs[i].close = Len(self)

(* C19: for every template and every number of arguments, the pass of the  *)
(* loop at a '{' that opens a field no '}' closes ends the call with the   *)
(* unterminated-sequence argument error: not with a range error, not with  *)
(* a result.                                                               *)
C19_Unterminated ==
    [][\A i \in DOMAIN RefFields(self, 0) :
         AtUnclosed(i) =>
            /\ op' = "done"
            /\ out' = Raise("invalid_argument", "Unterminated format sequence")]_vars

(* What holds of a field that is not closed: the call ends there without   *)
(* a result, and no template with such a field has a result.               *)
UnclosedNeverReturns ==
    /\ [][\A i \in DOMAIN RefFields(self, 0) :
            AtUnclosed(i) => op' = "done" /\ out'.kind # "ok"]_vars
    /\ [](\A i \in DOMAIN RefFields(self, 0) :
            op = "done" /\ RefFields(self, 0)[i].close = Len(self) => out.kind # "ok")

(* With an argument at its index, and neither a conversion nor an index    *)
(* operator, an unclosed field of a well-formed template has the           *)
(* unterminated-sequence error.                                            *)
UnclosedWithArgument ==
    [][\A i \in DOMAIN RefFields(self, 0) :
         (/\ AtUnclosed(i)
          /\ AtField(i)
          /\ RefIndex(self, i) < num
          /\ Len(RefDigits(self, RefFields(self, 0)[i].at + 1)) <= 19
          /\ \A p \in RefFields(self, 0)[i].at..(Len(self) - 1) : RefUnit(self, p) \notin {33, 91}
          /\ WellFormed(self))
         => /\ op' = "done"
            /\ out' = Raise("invalid_argument", "Unterminated format sequence")]_vars

(* What format makes of a template from offset p on, up to the first field *)
(* that is not closed or the first single '}': a '{' for '{{', a '}' for   *)
(* '}}', the rendering of a field, written as -1, for a field, and every   *)
(* other unit as it is.                                                    *)
RECURSIVE RefText(_, _)
RefText(s, p) ==
    IF p >= Len(s) THEN <<>>
    ELSE IF s[p + 1] = 123 THEN
        IF RefUnit(s, p + 1) = 123 THEN <<123>> \o RefText(s, p + 2)
        ELSE LET c == RefClose(s, p + 1, 1)
             IN  <<-1>> \o (IF c < Len(s) THEN RefText(s, c + 1) ELSE <<>>)
    ELSE IF s[p + 1] = 125 THEN
        IF RefUnit(s, p + 1) = 125 THEN <<125>> \o RefText(s, p + 2) ELSE <<>>
    ELSE <<s[p + 1]>> \o RefText(s, p + 1)

(* The offset of the first '}' outside a field that no '}' follows, from   *)
(* offset p on; Len(s) when there is none before the end or before a field *)
(* that is not closed.                                                     *)
RECURSIVE RefSingle(_, _)
RefSingle(s, p) ==
    IF p >= Len(s) THEN Len(s)
    ELSE IF s[p + 1] = 123 THEN
        IF RefUnit(s, p + 1) = 123 THEN RefSingle(s, p + 2)
        ELSE LET c == RefClose(s, p + 1, 1)
             IN  IF c < Len(s) THEN RefSingle(s, c + 1) ELSE Len(s)
    ELSE IF s[p + 1] = 125 THEN
        IF RefUnit(s, p + 1) = 125 THEN RefSingle(s, p + 2) ELSE p
    ELSE RefSingle(s, p + 1)

(* A result with every rendering of a field written as -1.                 *)
Marked(r) == [i \in DOMAIN r |-> IF r[i] < 0 THEN -1 ELSE r[i]]

SingleBraceSeen ==
    /\ op = "done"
    /\ out = Raise("invalid_argument", "Single '}' in format string")
    /\ RefSingle(self, 0) > 0
    /\ RefSingle(self, 0) < Len(self)

(* The offset after the index of the i-th field of a template.             *)
RefAfterIndex(s, i) ==
    LET fs == RefFields(s, 0)
    IN  fs[i].at + 1 + Len(RefDigits(s, fs[i].at + 1))

(* The i-th field of the template is '{' [index] '!' conv [':' spec] '}'   *)
(* with conv one of 'a', 'r', 's', and it is closed.                       *)
RefConverted(s, i) ==
    LET fs == RefFields(s, 0)
        p == RefAfterIndex(s, i)
    IN  /\ RefUnit(s, p) = 33
        /\ RefUnit(s, p + 1) \in {97, 114, 115}
        /\ RefUnit(s, p + 2) \in {58, 125}
        /\ fs[i].close < Len(s)

(* C21: a well-formed field with a conversion flag is accepted: the pass   *)
(* of the loop at it calls the formatter of its argument with the flag and *)
(* the specification, and the call goes on; any other unit after '!' ends  *)
(* the call with an argument error.                                        *)
C21_Conversion ==
    [][\A i \in DOMAIN RefFields(self, 0) :
         (/\ AtField(i)
          /\ RefIndex(self, i) < num
          /\ Len(RefDigits(self, RefFields(self, 0)[i].at + 1)) <= 19
          /\ RefUnit(self, RefAfterIndex(self, i)) = 33
          /\ WellFormed(self))
         => IF RefConverted(self, i)
            THEN /\ op' = "format1"
                 /\ frame'.calls # <<>>
                 /\ frame'.calls[Len(frame'.calls)].conv
                       = RefUnit(self, RefAfterIndex(self, i) + 1)
            ELSE /\ op' = "done"
                 /\ out'.kind = "throw"
                 /\ out'.val[1] = "invalid_argument"]_vars

(* What holds of a conversion flag: no formatter is ever called with one,  *)
(* a field with a flag always ends the call with invalid_argument, and a   *)
(* unit after '!' that is none of 'a', 'r', 's' has the error for it.      *)
ConversionNeverRuns ==
    /\ [](\A k \in DOMAIN frame.calls : frame.calls[k].conv = 0)
    /\ [][\A i \in DOMAIN RefFields(self, 0) :
            (/\ AtField(i)
             /\ RefIndex(self, i) < num
             /\ Len(RefDigits(self, RefFields(self, 0)[i].at + 1)) <= 19
             /\ RefUnit(self, RefAfterIndex(self, i)) = 33)
            => /\ op' = "done"
               /\ out' = Raise("invalid_argument",
                               IF RefUnit(self, RefAfterIndex(self, i) + 1) \in {97, 114, 115}
                               THEN "Unterminated format sequence"
                               ELSE "Invalid conversion")]_vars

----------------------------------------------------------------------------
(* The format specification as its grammar defines it, for the claims      *)
(* about the specifier and the integers:                                   *)
(* [[fill]align][sign]['#']['0'][width][','][.precision][type].            *)

RefAlign(u) == u \in {60, 62, 61, 94}

(* The part of a specification from the comma on, read at offset p: the    *)
(* comma, the digits of the precision without the '.', the type and the    *)
(* text after it.                                                          *)
RefTail(s, p) ==
    LET c == RefUnit(s, p) = 44
        q == IF c THEN p + 1 ELSE p
        dot == RefUnit(s, q) = 46
        ds == IF dot THEN RefDigits(s, q + 1) ELSE <<>>
        t == IF dot THEN q + 1 + Len(ds) ELSE q
        ty == t < Len(s) /\ is_alpha(s[t + 1])
    IN  [comma |-> c, dot |-> dot, pdigits |-> ds,
         type |-> IF ty THEN s[t + 1] ELSE 0,
         other |-> IF ty THEN SubSeq(s, t + 2, Len(s)) ELSE <<>>,
         rest |-> IF ty THEN <<>> ELSE SubSeq(s, t + 1, Len(s))]

(* A specification read by the grammar: n is the number of units of its    *)
(* first codepoint.                                                        *)
RefSpecifier(s) ==
    LET n == IF s = <<>> THEN 0
             ELSE IF RefAt("UTF8", s, 0).class = "good" THEN RefAt("UTF8", s, 0).len
             ELSE 1
        both == s # <<>> /\ RefAlign(RefUnit(s, n))
        bare == s # <<>> /\ ~both /\ RefAlign(RefUnit(s, 0))
        a == IF both THEN n + 1 ELSE IF bare THEN 1 ELSE 0
        g == RefUnit(s, a) \in {43, 45, 32}
        h == IF g THEN a + 1 ELSE a
        alt == RefUnit(s, h) = 35
        z == IF alt THEN h + 1 ELSE h
        zero == RefUnit(s, z) = 48
        w == IF zero THEN z + 1 ELSE z
        ws == RefDigits(s, w)
        tl == RefTail(s, w + Len(ws))
    IN  [fill |-> IF both THEN SubSeq(s, 1, n) ELSE IF zero THEN <<48>> ELSE <<>>,
         align |-> IF both THEN RefUnit(s, n)
                   ELSE IF bare THEN RefUnit(s, 0)
                   ELSE IF zero THEN 61 ELSE 0,
         sign |-> IF g THEN RefUnit(s, a) ELSE 0,
         alter |-> alt,
         zero |-> zero /\ ~both,
         wdigits |-> ws,
         comma |-> tl.comma, dot |-> tl.dot, pdigits |-> tl.pdigits,
         type |-> tl.type, other |-> tl.other, rest |-> tl.rest]

(* A width or a precision of the code as a number: -1 when there is none,  *)
(* 10000 for every number above 9999.                                      *)
SizeOf(x) ==
    IF x = NoSize THEN -1
    ELSE IF Allocated(x) /\ x[1] <= 9999 THEN x[1]
    ELSE 10000

(* The Specifier sp has the width and the precision that r writes.         *)
SameSizes(sp, r) ==
    /\ SizeOf(sp.width) = (IF r.wdigits = <<>> THEN -1 ELSE RefNumber(r.wdigits, 0))
    /\ SizeOf(sp.precision) = (IF r.dot THEN RefNumber(r.pdigits, 0) ELSE -1)

(* The Specifier sp has the flags, the type and the other that r has.      *)
SameFlags(sp, r) ==
    /\ sp.align = r.align
    /\ sp.sign = r.sign
    /\ sp.alter = r.alter
    /\ sp.comma = r.comma
    /\ sp.type = r.type
    /\ sp.other = r.other

(* C22: the parser reads the specification left to right by its grammar:   *)
(* the fill is the codepoint before an align, of one unit or of several; a *)
(* '0' before the width sets align to '=' if none was given and fill to    *)
(* '0' if none was given; width and precision are the numbers that their   *)
(* digits write; the text after the type is stored in other.               *)
C22_SpecifierParse ==
    [](op = "spec" /\ RefWellFormed("UTF8", self)
       => /\ SameFlags(out.val, RefSpecifier(self))
          /\ SameSizes(out.val, RefSpecifier(self))
          /\ out.val.fill = RefSpecifier(self).fill)

(* What holds of the parser: the flags, the type and other are read by the *)
(* grammar; so are a width and a precision of at most 19 digits; and so is *)
(* the fill, but for the fill of a '0' before the width, which is the view *)
(* of a string_literal.                                                    *)
SpecifierButZeroFill ==
    [](op = "spec" /\ RefWellFormed("UTF8", self)
       => /\ SameFlags(out.val, RefSpecifier(self))
          /\ (Len(RefSpecifier(self).wdigits) <= 19 /\ Len(RefSpecifier(self).pdigits) <= 19
              => SameSizes(out.val, RefSpecifier(self)))
          /\ IF RefSpecifier(self).zero
             THEN out.val.fill \in Literals(48)
             ELSE out.val.fill = RefSpecifier(self).fill)

(* The value was rendered as an integer under a specification of the       *)
(* grammar: a call of an integer renderer returned, with a type that is    *)
(* not 'c'.                                                                *)
RenderedInteger ==
    /\ op \in {"int64", "uint64"}
    /\ out.kind = "ok"
    /\ RefWellFormed("UTF8", self)
    /\ RefSpecifier(self).type # 99

(* The sign character that the sign flag g asks for a value v.             *)
RefSignOf(v, g) ==
    IF v < 0 THEN <<45>>
    ELSE IF g = 43 THEN <<43>>
    ELSE IF g = 32 THEN <<32>>
    ELSE <<>>

(* C30: the integer renderers place the sign character by the sign flag:   *)
(* '-' before a negative value; before a value that is not negative a '+'  *)
(* for the flag '+', a ' ' for the flag ' ', and none for the flag '-' and *)
(* for no flag.  The sign character is the first unit of the rendering     *)
(* that is neither padding nor a digit nor the prefix of the base.         *)
C30_SignCharacter ==
    [](RenderedInteger /\ RefSpecifier(self).wdigits = <<>>
       => LET sg == RefSignOf(num, RefSpecifier(self).sign)
          IN  /\ Len(out.val) >= Len(sg)
              /\ SubSeq(out.val, 1, Len(sg)) = sg
              /\ out.val[Len(sg) + 1] \notin {43, 45, 32})

(* What holds of the sign: a negative value has '-', and a value that is   *)
(* not negative has '+' under every sign flag and no sign character under  *)
(* none.                                                                   *)
SignForEveryFlag ==
    [](RenderedInteger /\ RefSpecifier(self).wdigits = <<>>
       => LET sg == IF num < 0 /\ op = "int64" THEN <<45>>
                    ELSE IF RefSpecifier(self).sign # 0 THEN <<43>>
                    ELSE <<>>
          IN  /\ Len(out.val) > Len(sg)
              /\ SubSeq(out.val, 1, Len(sg)) = sg
              /\ out.val[Len(sg) + 1] \notin {43, 45, 32})

(* The numeral of v >= 0 in base b, with upper-case letters for upper.     *)
RECURSIVE RefNumeral(_, _, _)
RefNumeral(v, b, upper) ==
    LET d == v % b
        c == IF d < 10 THEN 48 + d ELSE IF upper THEN 55 + d ELSE 87 + d
    IN  IF v < b THEN <<c>> ELSE Append(RefNumeral(v \div b, b, upper), c)

(* The base a type of the grammar renders in.                              *)
RefBase(type) ==
    IF type = 98 THEN 2
    ELSE IF type = 111 THEN 8
    ELSE IF type \in {120, 88} THEN 16
    ELSE 10

(* The numeral of the magnitude of v under the specification r.            *)
RefMagnitude(v, r) == RefNumeral(IF v < 0 THEN -v ELSE v, RefBase(r.type), r.type = 88)

(* The specification r is one the integer renderers accept.                *)
RefIntegerSpec(r) ==
    /\ r.type \in {0, 98, 111, 100, 110, 120, 88}
    /\ ~r.comma
    /\ ~r.dot
    /\ r.other = <<>>

(* The strings that may stand before the numeral under r: a sign character *)
(* or none, then the prefix of the alternate form.                         *)
RefHeads(r) ==
    { sg \o (IF r.alter /\ RefBase(r.type) # 10 THEN <<48, r.type>> ELSE <<>>) :
        sg \in {<<>>, <<43>>, <<45>>, <<32>>} }

(* The number of codepoints of a well-formed string.                       *)
RefCount(s) == Cardinality(RefStarts("UTF8", s, 0)) - 1

(* The field of width w for the head h and the numeral ds under r: no      *)
(* padding when they fill the width, else copies of the fill codepoint     *)
(* between them for '=', after them for '<', before them for '>' and for   *)
(* no align, and on both sides for '^'.                                    *)
RefField(h, ds, r, w) ==
    LET n == Len(h) + Len(ds)
        k == IF w > n THEN w - n ELSE 0
        f == IF r.fill = <<>> THEN <<32>> ELSE r.fill
    IN  IF r.align = 61 THEN { h \o Fill(f, k) \o ds }
        ELSE IF r.align = 60 THEN { h \o ds \o Fill(f, k) }
        ELSE IF r.align = 94
        THEN { Fill(f, l) \o h \o ds \o Fill(f, k - l) : l \in {k \div 2, k - k \div 2} }
        ELSE { Fill(f, k) \o h \o ds }

(* An integer renderer was called with a specification that it accepts and *)
(* that has a width below 100.                                             *)
RenderedWidth ==
    /\ op \in {"int64", "uint64"}
    /\ RefWellFormed("UTF8", self)
    /\ RefIntegerSpec(RefSpecifier(self))
    /\ RefSpecifier(self).wdigits # <<>>
    /\ Len(RefSpecifier(self).wdigits) <= 2

(* C23: for every integer value and every specification with a width w    *)
(* the field has max(w, n) codepoints, n those of the rendering without    *)
(* padding; the padding stands after sign and prefix and before the digits *)
(* for '=', as ljust, rjust and center place it for '<', '>' and '^', and  *)
(* before the rendering with no align; it is made of the fill codepoint,   *)
(* of one unit or of several (of ' ' with no fill).                        *)
C23_Padding ==
    [](RenderedWidth
       => LET r == RefSpecifier(self)
              w == RefNumber(r.wdigits, 0)
          IN  /\ out.kind = "ok"
              /\ \E h \in RefHeads(r) :
                    /\ out.val \in RefField(h, RefMagnitude(num, r), r, w)
                    /\ RefCount(out.val) =
                         (IF w > Len(h) + Len(RefMagnitude(num, r)) THEN w
                          ELSE Len(h) + Len(RefMagnitude(num, r))))

(* What holds of the padding: under a specification that gives the fill    *)
(* before an align the field is the one of the claim.                      *)
PaddingOfGivenFill ==
    [](RenderedWidth /\ RefSpecifier(self).fill # <<>> /\ ~RefSpecifier(self).zero
       => LET r == RefSpecifier(self)
              w == RefNumber(r.wdigits, 0)
          IN  /\ out.kind = "ok"
              /\ \E h \in RefHeads(r) :
                    /\ out.val \in RefField(h, RefMagnitude(num, r), r, w)
                    /\ RefCount(out.val) =
                         (IF w > Len(h) + Len(RefMagnitude(num, r)) THEN w
                          ELSE Len(h) + Len(RefMagnitude(num, r))))

(* An integer renderer was called with a specification without a width.    *)
RenderedBare ==
    /\ op \in {"int64", "uint64"}
    /\ RefWellFormed("UTF8", self)
    /\ RefSpecifier(self).wdigits = <<>>

(* The call failed with the error e.                                       *)
Failed(e) == out.kind = "throw" /\ Len(out.val) = 2 /\ out.val[1] = e

(* The call returned the numeral of the value under r, after a sign        *)
(* character or none and the prefix of the alternate form.                 *)
Numeral(r) ==
    /\ out.kind = "ok"
    /\ \E h \in RefHeads(r) : out.val = h \o RefMagnitude(num, r)

(* C24: the types b, o, d, n, x, X and no type render the magnitude in     *)
(* base 2, 8, 10, 10, 16, 16 and 10 with no leading zeros, X in upper      *)
(* case; the alternate form puts '0' and the type character before it for  *)
(* a base other than 10; a comma, a precision, a non-empty other and every *)
(* other type character is an argument error; e, E, f, F, g, G fail with   *)
(* the error of the unimplemented.  The type character is the one at the   *)
(* type position of the grammar, a letter or not.                          *)
C24_IntegerTypes ==
    [](RenderedBare
       => LET r == RefSpecifier(self)
              ty == IF r.type # 0 THEN r.type
                    ELSE IF r.rest # <<>> THEN r.rest[1]
                    ELSE 0
          IN  IF ty \in {101, 69, 102, 70, 103, 71}
              THEN \/ Failed("logic_error")
                   \/ (r.comma \/ r.dot \/ r.other # <<>>) /\ Failed("invalid_argument")
              ELSE IF ty \notin {0, 98, 111, 100, 110, 120, 88}
                      \/ r.comma \/ r.dot \/ r.other # <<>>
              THEN Failed("invalid_argument")
              ELSE Numeral(r))

(* What holds of the types: the claim with the letter at the type position *)
(* as the type, for every letter but 'c'.  What stands at the type         *)
(* position and is no letter, as '%', is not read and not refused.         *)
LetterTypes ==
    [](RenderedBare /\ RefSpecifier(self).type # 99
       => LET r == RefSpecifier(self)
          IN  IF r.type \in {101, 69, 102, 70, 103, 71}
              THEN Failed("logic_error")
              ELSE IF ~RefIntegerSpec(r)
              THEN Failed("invalid_argument")
              ELSE Numeral(r))

(* The n lower-case hexadecimal digits of v.                               *)
RefHex(v, n) ==
    LET ds == RefNumeral(v, 16, FALSE)
    IN  [i \in 1..(n - Len(ds)) |-> 48] \o ds

(* The letter of the escape of a control character, 0 for one that has     *)
(* none.                                                                   *)
RefLetter(cp) ==
    IF cp = 7 THEN 97
    ELSE IF cp = 8 THEN 98
    ELSE IF cp = 12 THEN 102
    ELSE IF cp = 10 THEN 110
    ELSE IF cp = 13 THEN 114
    ELSE IF cp = 9 THEN 116
    ELSE IF cp = 11 THEN 118
    ELSE 0

(* The rendering of the codepoint cp, encoded by the units us, in a quoted *)
(* string.  A quote is '"' or '\''.                                        *)
RefRendering(cp, us, asciiOnly) ==
    IF cp \in {34, 39, 92} THEN <<92, cp>>
    ELSE IF cp = 0 THEN <<92, 48>>
    ELSE IF RefLetter(cp) # 0 THEN <<92, RefLetter(cp)>>
    ELSE IF cp < 32 THEN <<92, 117>> \o RefHex(cp, 4)
    ELSE IF asciiOnly /\ cp >= 128 /\ cp <= 65535 THEN <<92, 117>> \o RefHex(cp, 4)
    ELSE IF asciiOnly /\ cp >= 65536 THEN <<92, 85>> \o RefHex(cp, 8)
    ELSE us

(* The renderings of the codepoints of the well-formed string s from the   *)
(* offset p on.                                                            *)
RECURSIVE RefRenderings(_, _, _)
RefRenderings(s, p, asciiOnly) ==
    IF p >= Len(s) THEN <<>>
    ELSE LET r == RefAt("UTF8", s, p)
         IN  RefRendering(r.cp, SubSeq(s, p + 1, p + r.len), asciiOnly)
                 \o RefRenderings(s, p + r.len, asciiOnly)

RefQuote(s, asciiOnly) == <<34>> \o RefRenderings(s, 0, asciiOnly) \o <<34>>

(* quote was called.                                                       *)
Quoted == op \in {"repr", "ascii"}

(* C25: quote returns '"', the renderings of the codepoints of the input   *)
(* in order, and '"': a backslash escape for a quote, the backslash, and   *)
(* the control characters with a letter; \u and four lower-case hex digits *)
(* for the other codepoints below 0x20 and, in ASCII-only mode, for those  *)
(* from 0x80 to 0xFFFF; \U and eight hex digits in ASCII-only mode from    *)
(* 0x10000 on; else the codepoint itself.  It returns for an input that    *)
(* cannot be decoded as well, and in ASCII-only mode every unit of the     *)
(* output is below 0x80.                                                   *)
C25_Quote ==
    [](Quoted
       => /\ out.kind = "ok"
          /\ RefWellFormed("UTF8", self) => out.val = RefQuote(self, op = "ascii")
          /\ op = "ascii" => \A i \in DOMAIN out.val : out.val[i] < 128)

(* What holds of quote: the claim for every well-formed input without      *)
(* U+0000, and for every input that quote returns for the first and the    *)
(* last unit and the units of the ASCII-only mode.                         *)
QuoteWithoutNull ==
    [](Quoted
       => /\ RefWellFormed("UTF8", self) /\ (\A i \in DOMAIN self : self[i] # 0)
               => out = Ok(RefQuote(self, op = "ascii"))
          /\ out.kind = "ok"
               => /\ out.val[1] = 34
                  /\ out.val[Len(out.val)] = 34
                  /\ op = "ascii" => \A i \in DOMAIN out.val : out.val[i] < 128)

(* C26: for U+0000 quote emits the two units backslash and '0' and no      *)
(* more, and goes on with the next character: the output for a well-formed *)
(* input that holds U+0000 is the one with that rendering of it.           *)
C26_Null ==
    [](Quoted /\ RefWellFormed("UTF8", self) /\ (\E i \in DOMAIN self : self[i] = 0)
       => out = Ok(RefQuote(self, op = "ascii")))

(* What holds of U+0000: its rendering is the four units of "\0\a".        *)
NullThenBell ==
    [](Quoted /\ self = <<0>> => out = Ok(<<34, 92, 48, 92, 97, 34>>))

(* The well-formed string s from the offset p on with its tabs expanded to *)
(* the next multiple of tabsize; col is the number of codepoints since the *)
(* start of the string or the last '\r' or '\n', tabs counted by the       *)
(* spaces they stand for.                                                  *)
RECURSIVE RefExpandFrom(_, _, _, _)
RefExpandFrom(s, p, tabsize, col) ==
    IF p >= Len(s) THEN <<>>
    ELSE LET r == RefAt("UTF8", s, p)
             k == tabsize - (col % tabsize)
         IN  IF r.cp = 9
             THEN [i \in 1..k |-> 32] \o RefExpandFrom(s, p + 1, tabsize, col + k)
             ELSE SubSeq(s, p + 1, p + r.len)
                      \o RefExpandFrom(s, p + r.len, tabsize,
                                       IF r.cp \in {10, 13} THEN 0 ELSE col + 1)

RefExpand(s, tabsize) == RefExpandFrom(s, 0, tabsize, 0)

C28_Terminates == <>(op = "done")

(* What holds of termination: the calls on a well-formed string with a     *)
(* pattern that is not empty return.                                       *)
WellFormedTerminates ==
    (RefWellFormed("UTF8", self) /\ arg # <<>>) => <>(op = "done")

(* C29: every unit that a call reads of a view of n units lies at an       *)
(* offset in [0, n), also for an empty view: here for the call of zfill.   *)
C29_ReadsInside ==
    op = "zfill" => \A i \in zfillReads(self, num) : i >= 0 /\ i < Len(self)

(* What holds of the reads of zfill: they lie inside a well-formed string  *)
(* that is not empty.                                                      *)
ReadsInsideWellFormed ==
    op = "zfill" /\ self # <<>> /\ RefWellFormed("UTF8", self)
    => \A i \in zfillReads(self, num) : i >= 0 /\ i < Len(self)

============================================================================
